---- MODULE Spec2Model ----
(***************************************************************************)
(* Model of the arisvideo-python video generation service:                 *)
(*   - the in-memory status store (services/status_tracker.py),            *)
(*   - the job supervisor generate_video_background and the /generate,     *)
(*     /status and /cleanup handlers (app.py),                             *)
(*   - the timeline reconciler create_synchronized_audio                   *)
(*     (services/audio_processor.py) and calculate_wait_adjustments        *)
(*     (services/manim_script_modifier.py).                                *)
(* Times are integers in milliseconds.                                     *)
(***************************************************************************)
EXTENDS Integers, Sequences, FiniteSets, TLC

\* ------------------------------------------------------------------ bounds
\* Number of /generate requests accepted in one behaviour.
MaxJobs == 1

JobIds == 1..MaxJobs

\* ------------------------------------------------------------- sentinels
\* Python's None for string-valued and for integer-valued optional fields.
None == "None"

NoneInt == -1

\* The status store holds no record for the id.
NoEntry == [status |-> "absent"]

NoResponse == [code |-> 0]

VARIABLES
    statuses,   \* StatusTracker._statuses: job id -> VideoStatus or NoEntry
    pc,         \* position of each job's background task
    request,    \* the AnimationRequest of each job
    locals,     \* local variables of generate_video_background, per job
    calls,      \* history of each job: its calls to the render engine and the
                \* repair LLM, and whether its record ever showed a terminal status
    files,      \* ids whose <id>.mp4 exists in the storage directory
    response,   \* the last answer of GET /status/{video_id}
    syncPc,             \* position inside create_synchronized_audio
    narration_segments, \* its input
    valid_segments,     \* the input without the segments of empty text
    audio_segments,     \* the records built by Pass A, rewritten by Pass B
    handed,             \* the timeline given to combine_audio_segments
    segment_metadata,   \* the metadata list it returns
    adjustments,        \* the result of calculate_wait_adjustments
    tts_input,          \* input= of the last speech.create call
    pad_result,         \* how the last silence-padding attempt ended
    store_call,         \* the last call a client made on the status store
    narrPc,             \* position in the narration composer
    timing_result,      \* what extract_animation_timing returned
    llm_response,       \* outcome of the LLM call of generate_timed_narration
    narration_payload,  \* what extract_json_array returned
    narration_out,      \* the list generate_timed_narration returned
    probe_out,          \* what get_audio_duration returned
    time_in,            \* a time handed to the subtitle formatters
    srt_out,            \* what format_srt_time returned
    vtt_out,            \* what format_vtt_time returned
    asmPc,              \* position in combine_audio_segments
    asm_segments,       \* its input timeline
    sequence_parts,     \* the parts planned by create_simple_timed_audio
    asm_files,          \* files of the assembler present in temp_output
    asm_started,        \* the assembly strategies started, in order
    patchPc,            \* position in the script timing patcher
    patch_script,       \* the script handed to inject_wait_times
    patch_adjustments,  \* its adjustments
    patch_total,        \* len(timing_segments)
    patch_out,          \* what inject_wait_times returned
    patch_valid,        \* what validate_modified_script said of that
    http,               \* the last answer of POST /generate
    videos,             \* the videos table of db.py: video_id -> row
    lock,               \* StatusTracker._lock: the thread holding it, 0 when free
    threads,            \* the threads calling StatusTracker.update: position,
                        \* video_id and keyword arguments of each
    video_statuses,     \* the video_statuses table of db.py: a set of rows
    db_last,            \* history: video_id -> the arguments of the last
                        \* update_video_status made for it
    db_result           \* what the last get_video_status returned

jobVars == <<statuses, pc, request, locals, calls, files, response>>

syncVars == <<syncPc, narration_segments, valid_segments, audio_segments,
              handed, segment_metadata, adjustments, tts_input, pad_result>>

\* The variables of the functions that are exercised on their own.
narrVars == <<narrPc, timing_result, llm_response, narration_payload,
              narration_out, probe_out>>

timeVars == <<time_in, srt_out, vtt_out>>

asmVars == <<asmPc, asm_segments, sequence_parts, asm_files, asm_started>>

patchVars == <<patchPc, patch_script, patch_adjustments, patch_total,
               patch_out, patch_valid>>

apiVars == <<http, videos>>

\* The variables added for the patcher and the HTTP front.
lockVars == <<lock, threads>>

dbVars == <<video_statuses, db_last, db_result>>

otherVars == <<patchVars, apiVars, lockVars, dbVars>>

fnVars == <<store_call, narrVars, timeVars, asmVars, otherVars>>

vars == <<jobVars, syncVars, fnVars>>

\* --------------------------------------------------------- status tracker
\* StatusTracker.create: a fresh record, status pending, step 0.
Create(st, id, msg) ==
    [st EXCEPT ![id] =
        [status |-> "pending", step |-> 0, step_message |-> msg,
         error |-> None, file_path |-> None, duration |-> None,
         subtitle_path |-> None, stale |-> FALSE]]

\* The keyword arguments of StatusTracker.update, all defaulting to None.
NoArgs ==
    [status |-> None, step |-> NoneInt, step_message |-> None, error |-> None,
     file_path |-> None, duration |-> None, subtitle_path |-> None]

\* StatusTracker.update clobbering the fields that were not supplied.
UpdateAllFields(st, id, a) ==
    IF st[id] = NoEntry
    THEN st
    ELSE [st EXCEPT ![id] =
            [status        |-> a.status,
             step          |-> a.step,
             step_message  |-> a.step_message,
             error         |-> a.error,
             file_path     |-> a.file_path,
             duration      |-> a.duration,
             subtitle_path |-> a.subtitle_path,
             stale         |-> FALSE]]

\* StatusTracker.update writing the supplied fields into every record of the
\* store (one VideoStatus object shared by the ids).
UpdateEveryRecord(st, id, a) ==
    IF st[id] = NoEntry
    THEN st
    ELSE [k \in DOMAIN st |->
            IF st[k] = NoEntry THEN st[k]
            ELSE [status        |-> IF a.status # None THEN a.status
                                    ELSE st[k].status,
                  step          |-> IF a.step # NoneInt THEN a.step ELSE st[k].step,
                  step_message  |-> IF a.step_message # None THEN a.step_message
                                    ELSE st[k].step_message,
                  error         |-> IF a.error # None THEN a.error ELSE st[k].error,
                  file_path     |-> IF a.file_path # None THEN a.file_path
                                    ELSE st[k].file_path,
                  duration      |-> IF a.duration # None THEN a.duration
                                    ELSE st[k].duration,
                  subtitle_path |-> IF a.subtitle_path # None THEN a.subtitle_path
                                    ELSE st[k].subtitle_path,
                  stale         |-> FALSE]]

\* StatusTracker.update with step defaulting to 0 instead of None.
UpdateStepDefaultsToZero(st, id, a) ==
    IF st[id] = NoEntry
    THEN st
    ELSE [st EXCEPT ![id] =
            [status        |-> IF a.status # None THEN a.status ELSE @.status,
             step          |-> IF a.step # NoneInt THEN a.step ELSE 0,
             step_message  |-> IF a.step_message # None THEN a.step_message
                               ELSE @.step_message,
             error         |-> IF a.error # None THEN a.error ELSE @.error,
             file_path     |-> IF a.file_path # None THEN a.file_path
                               ELSE @.file_path,
             duration      |-> IF a.duration # None THEN a.duration
                               ELSE @.duration,
             subtitle_path |-> IF a.subtitle_path # None THEN a.subtitle_path
                               ELSE @.subtitle_path,
             stale         |-> FALSE]]

\* StatusTracker.update: returns None (store unchanged) when the id has no
\* record; otherwise sets exactly the supplied fields and refreshes updated_at.
Update(st, id, a) ==
    IF st[id] = NoEntry
    THEN st
    ELSE [st EXCEPT ![id] =
            [status        |-> IF a.status # None THEN a.status ELSE @.status,
             step          |-> IF a.step # NoneInt THEN a.step ELSE @.step,
             step_message  |-> IF a.step_message # None THEN a.step_message
                               ELSE @.step_message,
             error         |-> IF a.error # None THEN a.error ELSE @.error,
             file_path     |-> IF a.file_path # None THEN a.file_path
                               ELSE @.file_path,
             duration      |-> IF a.duration # None THEN a.duration
                               ELSE @.duration,
             subtitle_path |-> IF a.subtitle_path # None THEN a.subtitle_path
                               ELSE @.subtitle_path,
             stale         |-> FALSE]]

\* StatusTracker.cleanup_old: drops every record whose updated_at is older
\* than the cutoff.
SweepOld(st) ==
    [id \in DOMAIN st |->
        IF st[id] # NoEntry /\ st[id].stale THEN NoEntry ELSE st[id]]

Terminal == {"completed", "failed"}

\* ------------------------------------------------------------- requests
SyncMethods == {"timing_analysis", "subtitle_overlay", "simple"}

Requests ==
    [include_audio : {TRUE}, sync_method : SyncMethods]
        \cup {[include_audio |-> FALSE, sync_method |-> "timing_analysis"]}

NoRequest == [include_audio |-> FALSE, sync_method |-> "none"]

InitLocals ==
    [manim_script |-> None, script_file |-> None, audio_path |-> None,
     subtitle_path |-> "unbound", manim_error |-> None]

InitCalls ==
    [renders |-> 0, fixes |-> 0, render1_script |-> None,
     fix_script |-> None, fix_error |-> None,
     render1_failed |-> FALSE, fix_failed |-> FALSE, render2_failed |-> FALSE,
     reached_terminal |-> FALSE]

JobInit ==
    /\ statuses = [j \in JobIds |-> NoEntry]
    /\ pc = [j \in JobIds |-> "idle"]
    /\ request = [j \in JobIds |-> NoRequest]
    /\ locals = [j \in JobIds |-> InitLocals]
    /\ calls = [j \in JobIds |-> InitCalls]
    /\ files = {}
    /\ response = NoResponse

\* create_synchronized_audio has not been called.
SyncIdle ==
    /\ syncPc = "idle"
    /\ narration_segments = <<>>
    /\ valid_segments = <<>>
    /\ audio_segments = <<>>
    /\ handed = <<>>
    /\ segment_metadata = <<>>
    /\ adjustments = <<>>
    /\ tts_input = None
    /\ pad_result = None

\* No client call on the store yet.
NoCall == [op |-> "none"]

\* None of the functions exercised on their own has been called.
NarrIdle ==
    /\ narrPc = "idle"
    /\ timing_result = [kind |-> "none"]
    /\ llm_response = [kind |-> "none"]
    /\ narration_payload = None
    /\ narration_out = <<>>
    /\ probe_out = NoneInt

TimeIdle ==
    /\ time_in = NoneInt
    /\ srt_out = [text |-> None]
    /\ vtt_out = [text |-> None]

AsmIdle ==
    /\ asmPc = "idle"
    /\ asm_segments = <<>>
    /\ sequence_parts = <<>>
    /\ asm_files = {}
    /\ asm_started = <<>>

\* inject_wait_times has not been called.
PatchIdle ==
    /\ patchPc = "idle"
    /\ patch_script = ""
    /\ patch_adjustments = <<>>
    /\ patch_total = 0
    /\ patch_out = ""
    /\ patch_valid = [ok |-> FALSE, error |-> None]

\* No request on /generate yet; the videos table is empty.
ApiIdle ==
    /\ http = NoResponse
    /\ videos = [j \in JobIds |-> NoEntry]

\* The threads of the store: two, none of them in a call.
Threads == {1, 2}

IdleThread == [pc |-> "idle", id |-> 0, a |-> NoArgs]

LockIdle ==
    /\ lock = 0
    /\ threads = [t \in Threads |-> IdleThread]

\* No call of db.py made yet.
NoUpdate == [status |-> None, step |-> NoneInt, message |-> None]

DbIdle ==
    /\ video_statuses = {}
    /\ db_last = [j \in JobIds |-> NoUpdate]
    /\ db_result = None

OtherIdle == PatchIdle /\ ApiIdle /\ LockIdle /\ DbIdle

FnIdle ==
    /\ store_call = NoCall
    /\ NarrIdle
    /\ TimeIdle
    /\ AsmIdle
    /\ OtherIdle

\* ----------------------------------------------------- helpers of the job
Goto(j, l) == pc' = [pc EXCEPT ![j] = l]

SetStatus(j, a) == statuses' = Update(statuses, j, a)

\* History: whether the update just made left a terminal status in the store.
Recorded(j) ==
    calls' = [calls EXCEPT ![j].reached_terminal =
                @ \/ statuses'[j].status \in Terminal]

\* The task ends: its request and its local variables are gone.
Return(j) ==
    /\ Goto(j, "done")
    /\ request' = [request EXCEPT ![j] = NoRequest]
    /\ locals' = [locals EXCEPT ![j] = InitLocals]

\* app.py line 324: the stage that follows a successful render.
AfterRender(j) == IF request[j].include_audio THEN "step3" ELSE "move"

\* The timing_analysis branch composing the narration without the timing.
FirstAudioCallSkipsTiming(j) ==
    IF request[j].sync_method = "timing_analysis" THEN "compose"
    ELSE "extract_narration"

\* app.py lines 334-376: the first call of the chosen sync method.
FirstAudioCall(j) ==
    IF request[j].sync_method = "timing_analysis" THEN "extract_timing"
    ELSE "extract_narration"

\* Ids are generated fresh: the next request gets the lowest unused id.
NextFreshId(j) ==
    /\ pc[j] = "idle"
    /\ \A k \in JobIds : k < j => pc[k] # "idle"

\* ------------------------------------------------------------ POST /generate
\* generate_animation: creates the status record, then schedules the task.
Generate(j, r) ==
    /\ NextFreshId(j)
    /\ statuses' = Create(statuses, j, "Initializing video generation")
    /\ request' = [request EXCEPT ![j] = r]
    /\ Goto(j, "start")
    /\ UNCHANGED <<locals, calls, files, response, syncVars, fnVars>>

\* ------------------------------------------- generate_video_background
\* line 268: first status update of the task.
BgStart(j) ==
    /\ pc[j] = "start"
    /\ SetStatus(j, [NoArgs EXCEPT !.status = "processing", !.step = 1,
                                   !.step_message = "Generating Manim script"])
    /\ Goto(j, "script_gen")
    /\ UNCHANGED <<request, locals, calls, files, response, syncVars, fnVars>>

\* lines 273-294: language detection, duration estimate, script generation
\* (LLM calls that return or raise), then the script file is written.
ScriptGen(j) ==
    /\ pc[j] = "script_gen"
    /\ \/ /\ locals' = [locals EXCEPT ![j].manim_script = "generated",
                                      ![j].script_file = "generated"]
          /\ Goto(j, "step2")
       \/ /\ Goto(j, "except")
          /\ UNCHANGED locals
    /\ UNCHANGED <<statuses, request, calls, files, response, syncVars, fnVars>>

\* line 298.
Step2(j) ==
    /\ pc[j] = "step2"
    /\ SetStatus(j, [NoArgs EXCEPT !.step = 2,
                                   !.step_message = "Rendering animation"])
    /\ Goto(j, "render1")
    /\ UNCHANGED <<request, locals, calls, files, response, syncVars, fnVars>>

\* lines 300-305: first invocation of the render engine.
Render1(j) ==
    /\ pc[j] = "render1"
    /\ \/ /\ calls' = [calls EXCEPT ![j].renders = @ + 1,
                                    ![j].render1_script = locals[j].script_file]
          /\ Goto(j, AfterRender(j))
          /\ UNCHANGED locals
       \/ /\ calls' = [calls EXCEPT ![j].renders = @ + 1,
                                    ![j].render1_script = locals[j].script_file,
                                    ![j].render1_failed = TRUE]
          /\ locals' = [locals EXCEPT ![j].manim_error = "render_error_1"]
          /\ Goto(j, "fix")
    /\ UNCHANGED <<statuses, request, files, response, syncVars, fnVars>>

\* The arguments the repair call is given at line 309.
FixArguments(j) ==
    [script |-> locals[j].manim_script, error |-> locals[j].manim_error]

\* lines 309-313: the LLM repair call; on success the fixed script is saved.
Fix(j) ==
    /\ pc[j] = "fix"
    /\ \/ /\ calls' = [calls EXCEPT ![j].fixes = @ + 1,
                                    ![j].fix_script = FixArguments(j).script,
                                    ![j].fix_error = FixArguments(j).error]
          /\ locals' = [locals EXCEPT ![j].script_file = "fixed"]
          /\ Goto(j, "render2")
       \/ /\ calls' = [calls EXCEPT ![j].fixes = @ + 1,
                                    ![j].fix_script = FixArguments(j).script,
                                    ![j].fix_error = FixArguments(j).error,
                                    ![j].fix_failed = TRUE]
          /\ Goto(j, "except")
          /\ UNCHANGED locals
    /\ UNCHANGED <<statuses, request, files, response, syncVars, fnVars>>

\* A retry loop: a failed retry is repaired and rendered again.
AfterRender2FailureRetry == "fix"

\* Where the task goes when the retried render raises: the exception leaves
\* the handler of line 304 and reaches the handler of line 429.
AfterRender2Failure == "except"

\* lines 316-317: the retried render.
Render2(j) ==
    /\ pc[j] = "render2"
    /\ \/ /\ calls' = [calls EXCEPT ![j].renders = @ + 1]
          /\ Goto(j, AfterRender(j))
       \/ /\ calls' = [calls EXCEPT ![j].renders = @ + 1,
                                    ![j].render2_failed = TRUE]
          /\ Goto(j, AfterRender2Failure)
    /\ UNCHANGED <<statuses, request, locals, files, response, syncVars, fnVars>>

\* line 326.
Step3(j) ==
    /\ pc[j] = "step3"
    /\ SetStatus(j, [NoArgs EXCEPT !.step = 3,
                                   !.step_message = "Generating audio"])
    /\ Goto(j, "probe_video")
    /\ UNCHANGED <<request, locals, calls, files, response, syncVars, fnVars>>

\* lines 329-334: the duration probe, then subtitle_path is bound to None.
ProbeVideo(j) ==
    /\ pc[j] = "probe_video"
    /\ locals' = [locals EXCEPT ![j].subtitle_path = None]
    /\ Goto(j, FirstAudioCall(j))
    /\ UNCHANGED <<statuses, request, calls, files, response, syncVars, fnVars>>

\* line 336: extract_animation_timing falls back instead of raising.
ExtractTiming(j) ==
    /\ pc[j] = "extract_timing"
    /\ Goto(j, "compose")
    /\ UNCHANGED <<statuses, request, locals, calls, files, response, syncVars, fnVars>>

\* lines 339-341: generate_timed_narration falls back instead of raising.
ComposeNarration(j) ==
    /\ pc[j] = "compose"
    /\ Goto(j, "subtitles")
    /\ UNCHANGED <<statuses, request, locals, calls, files, response, syncVars, fnVars>>

\* lines 344-352: the subtitle file is written and copied to storage.
Subtitles(j) ==
    /\ pc[j] = "subtitles"
    /\ \/ /\ locals' = [locals EXCEPT ![j].subtitle_path = "final_subtitle_path"]
          /\ Goto(j, "sync_audio")
       \/ /\ Goto(j, "except")
          /\ UNCHANGED locals
    /\ UNCHANGED <<statuses, request, calls, files, response, syncVars, fnVars>>

\* lines 355-357: audio_path is bound to what create_synchronized_audio
\* returns, the pair (audio_path, segment_metadata).
SyncAudio(j) ==
    /\ pc[j] = "sync_audio"
    /\ \/ /\ locals' = [locals EXCEPT ![j].audio_path = "tuple"]
          /\ Goto(j, "step4")
       \/ /\ Goto(j, "except")
          /\ UNCHANGED locals
    /\ UNCHANGED <<statuses, request, calls, files, response, syncVars, fnVars>>

\* lines 360-362 and 371-373: extract_narration_from_script.
ExtractNarration(j) ==
    /\ pc[j] = "extract_narration"
    /\ \/ Goto(j, "tts")
       \/ Goto(j, "except")
    /\ UNCHANGED <<statuses, request, locals, calls, files, response, syncVars, fnVars>>

\* lines 363-365 and 374-376: generate_tts_audio returns a path.
Tts(j) ==
    /\ pc[j] = "tts"
    /\ \/ /\ locals' = [locals EXCEPT ![j].audio_path = "path"]
          /\ Goto(j, IF request[j].sync_method = "subtitle_overlay"
                     THEN "add_subtitles" ELSE "adjust_audio")
       \/ /\ Goto(j, "except")
          /\ UNCHANGED locals
    /\ UNCHANGED <<statuses, request, calls, files, response, syncVars, fnVars>>

\* lines 367-369 and 398: add_subtitles_to_video writes the final video; with
\* subtitle_overlay it runs at 367 and again at 398.
AddSubtitles(j) ==
    /\ pc[j] \in {"add_subtitles", "add_subtitles_again"}
    /\ \/ /\ files' = files \cup {j}
          /\ Goto(j, IF pc[j] = "add_subtitles" THEN "add_subtitles_again"
                     ELSE "final_probe")
       \/ /\ Goto(j, "except")
          /\ UNCHANGED files
    /\ UNCHANGED <<statuses, request, locals, calls, response, syncVars, fnVars>>

\* lines 378-385: the audio is measured and, when it differs from the video by
\* more than 2 s, adjusted.
AdjustAudio(j) ==
    /\ pc[j] = "adjust_audio"
    /\ \/ Goto(j, "step4")
       \/ Goto(j, "except")
    /\ UNCHANGED <<statuses, request, locals, calls, files, response, syncVars, fnVars>>

\* lines 387-389.
Step4(j) ==
    /\ pc[j] = "step4"
    /\ SetStatus(j, [NoArgs EXCEPT !.step = 4,
                                   !.step_message = "Combining audio and video"])
    /\ Goto(j, "combine")
    /\ UNCHANGED <<request, locals, calls, files, response, syncVars, fnVars>>

\* line 391: combine_audio_video writes the final video or raises.
Combine(j) ==
    /\ pc[j] = "combine"
    /\ \/ /\ files' = files \cup {j}
          /\ Goto(j, "rm_audio")
       \/ /\ Goto(j, "except")
          /\ UNCHANGED files
    /\ UNCHANGED <<statuses, request, locals, calls, response, syncVars, fnVars>>

\* line 395: os.remove(audio_path) raises TypeError when audio_path is the
\* pair returned by create_synchronized_audio.
RemoveAudio(j) ==
    /\ pc[j] = "rm_audio"
    /\ Goto(j, IF locals[j].audio_path = "tuple" THEN "except" ELSE "final_probe")
    /\ UNCHANGED <<statuses, request, locals, calls, files, response, syncVars, fnVars>>

\* line 401: without audio the rendered video is moved to storage.
Move(j) ==
    /\ pc[j] = "move"
    /\ \/ /\ files' = files \cup {j}
          /\ Goto(j, "final_probe")
       \/ /\ Goto(j, "except")
          /\ UNCHANGED files
    /\ UNCHANGED <<statuses, request, locals, calls, response, syncVars, fnVars>>

\* lines 404-414: the final duration probe and the removal of the script.
FinalProbe(j) ==
    /\ pc[j] = "final_probe"
    /\ Goto(j, "final_update")
    /\ UNCHANGED <<statuses, request, locals, calls, files, response, syncVars, fnVars>>

\* lines 417-424: the final status update. Evaluating its arguments raises
\* UnboundLocalError when subtitle_path was never bound (no audio).
FinalUpdate(j) ==
    /\ pc[j] = "final_update"
    /\ IF locals[j].subtitle_path = "unbound"
       THEN /\ Goto(j, "except")
            /\ UNCHANGED <<statuses, calls>>
       ELSE /\ SetStatus(j, [NoArgs EXCEPT
                     !.status = "completed",
                     !.step_message = "Generation completed",
                     !.file_path = "final_video_path",
                     !.duration = "video_duration",
                     !.subtitle_path = locals[j].subtitle_path])
            /\ Recorded(j)
            /\ Goto(j, "cleanup_fp")
    /\ UNCHANGED <<request, locals, files, response, syncVars, fnVars>>

\* Where the task goes when cleanup_file_processor() at line 427 raises: the
\* call is inside the try block, so the handler of line 429 runs.
AfterCleanupFailure == "except"

\* lines 426-427: cleanup_file_processor() returns or raises.
CleanupFileProcessor(j) ==
    /\ pc[j] = "cleanup_fp"
    /\ \/ Return(j)
       \/ /\ Goto(j, AfterCleanupFailure)
          /\ UNCHANGED <<request, locals>>
    /\ UNCHANGED <<statuses, calls, files, response, syncVars, fnVars>>

\* The failure handler recording the status without the error.
ExceptWithoutError(j) ==
    /\ pc[j] = "except"
    /\ SetStatus(j, [NoArgs EXCEPT !.status = "failed",
                                   !.step_message = "Generation failed"])
    /\ Recorded(j)
    /\ Goto(j, "cleanup_tmp")
    /\ UNCHANGED <<request, locals, files, response, syncVars, fnVars>>

\* lines 429-437: the failure handler records status failed and the error.
Except(j) ==
    /\ pc[j] = "except"
    /\ SetStatus(j, [NoArgs EXCEPT !.status = "failed",
                                   !.step_message = "Generation failed",
                                   !.error = "error_text"])
    /\ Recorded(j)
    /\ Goto(j, "cleanup_tmp")
    /\ UNCHANGED <<request, locals, files, response, syncVars, fnVars>>

\* lines 439-443: best-effort clean-up; the task ends whether the calls
\* return or raise.
CleanupTemp(j) ==
    /\ pc[j] = "cleanup_tmp"
    /\ Return(j)
    /\ UNCHANGED <<statuses, calls, files, response, syncVars, fnVars>>

JobStep(j) ==
    \/ BgStart(j) \/ ScriptGen(j) \/ Step2(j) \/ Render1(j) \/ Fix(j)
    \/ Render2(j) \/ Step3(j) \/ ProbeVideo(j) \/ ExtractTiming(j)
    \/ ComposeNarration(j) \/ Subtitles(j) \/ SyncAudio(j)
    \/ ExtractNarration(j) \/ Tts(j) \/ AddSubtitles(j) \/ AdjustAudio(j)
    \/ Step4(j) \/ Combine(j) \/ RemoveAudio(j) \/ Move(j) \/ FinalProbe(j)
    \/ FinalUpdate(j) \/ CleanupFileProcessor(j) \/ Except(j) \/ CleanupTemp(j)

\* ------------------------------------------------------- retention sweep
\* Time passes: a record that was not updated for cleanup_after (one hour)
\* becomes older than the cutoff.
Age(j) ==
    /\ statuses[j] # NoEntry
    /\ ~statuses[j].stale
    /\ statuses' = [statuses EXCEPT ![j].stale = TRUE]
    /\ UNCHANGED <<pc, request, locals, calls, files, response, syncVars, fnVars>>

\* GET /cleanup: status_tracker.cleanup_old().
CleanupOld ==
    /\ \E j \in JobIds : statuses[j] # NoEntry /\ statuses[j].stale
    /\ statuses' = SweepOld(statuses)
    /\ UNCHANGED <<pc, request, locals, calls, files, response, syncVars, fnVars>>

\* --------------------------------------------------- GET /status/{video_id}
\* A fallback that trusts the lost record instead of looking at the storage.
StatusResponseNoDiskCheck(id) ==
    IF statuses[id] # NoEntry
    THEN [code |-> 200, video_id |-> id, status |-> statuses[id].status,
          live |-> TRUE, artifact |-> FALSE]
    ELSE [code |-> 200, video_id |-> id, status |-> "completed",
          live |-> FALSE, artifact |-> id \in files]

\* get_video_status: the live record when there is one, otherwise the
\* fallback on the artifact in storage. live and artifact record what the
\* handler saw: whether the store held a record and, when it looked at the
\* storage (only without a record), whether <id>.mp4 existed.
StatusResponse(id) ==
    IF statuses[id] # NoEntry
    THEN [code |-> 200, video_id |-> id, status |-> statuses[id].status,
          live |-> TRUE, artifact |-> FALSE]
    ELSE IF id \in files
         THEN [code |-> 200, video_id |-> id, status |-> "completed",
               live |-> FALSE, artifact |-> TRUE]
         ELSE [code |-> 404, video_id |-> id, status |-> None,
               live |-> FALSE, artifact |-> FALSE]

GetVideoStatus(id) ==
    /\ response' = StatusResponse(id)
    /\ response' # response
    /\ UNCHANGED <<statuses, pc, request, locals, calls, files, syncVars, fnVars>>

\* The supervisor with its status store and the retention sweep.
Next ==
    \/ \E j \in JobIds, r \in Requests : Generate(j, r)
    \/ \E j \in JobIds : JobStep(j)
    \/ \E j \in JobIds : Age(j)
    \/ CleanupOld

Init == JobInit /\ SyncIdle /\ FnIdle

Spec == Init /\ [][Next]_vars

\* The same system observed through status queries.
NextStatus ==
    \/ Next
    \/ \E id \in JobIds : GetVideoStatus(id)

SpecStatus == Init /\ [][NextStatus]_vars

\* ========================================================= POST /generate
\* The endpoint with its API key dependency and its prompt validation.
\* The value of the API_KEY environment variable when it is set.
ConfiguredKey == "test-api-key"

\* The X-API-Key header of a request: absent (None), empty, the configured
\* key, another key.
KeyHeaders == {None, "", ConfiguredKey, "wrong-key"}

Prompts == {"", "Explain the Pythagorean theorem"}

\* The requests drawn on the endpoint, as (API_KEY, header, prompt): with
\* the key configured, every header with a valid prompt and the right header
\* with every prompt; without it, a request that is otherwise in order.
ApiCalls ==
    {<<ConfiguredKey, k, "Explain the Pythagorean theorem">> : k \in KeyHeaders}
        \cup {<<ConfiguredKey, ConfiguredKey, p>> : p \in Prompts}
        \cup {<<None, ConfiguredKey, "Explain the Pythagorean theorem">>}

\* utils.validate_prompt: the empty prompt is refused.
validate_prompt(prompt) == prompt # ""

\* verify_api_key, lines 9-37: the status code it raises, 0 when it returns.
verify_api_key(expected_api_key, x_api_key) ==
    IF expected_api_key = None THEN 500
    ELSE IF x_api_key = None \/ x_api_key = "" THEN 401
    ELSE IF x_api_key # expected_api_key THEN 401
    ELSE 0

\* A handler that checks the prompt only after the record is created still
\* answers 400; whether a request with this answer got as far as line 241.
ReachesCreateBeforeValidation(code) == code \in {200, 400}

\* app.py lines 237-241: the requests that get as far as
\* status_tracker.create, by their status code.
ReachesCreate(code) == code = 200

\* The status code of POST /generate: the dependency runs first, then the
\* check of line 237.
GenerateCode(expected_api_key, x_api_key, prompt) ==
    IF verify_api_key(expected_api_key, x_api_key) # 0
    THEN verify_api_key(expected_api_key, x_api_key)
    ELSE IF ~validate_prompt(prompt) THEN 400
    ELSE 200

\* generate_animation, lines 220-248, with its dependency: the request is
\* refused and nothing else happens, or the record is created under a fresh
\* id (the ids of the model are used up by the accepted requests only) and
\* the background task is scheduled; http keeps what was sent and what was
\* answered. r is the body of the request when it is accepted.
PostGenerate(expected_api_key, x_api_key, prompt, r) ==
    LET code == GenerateCode(expected_api_key, x_api_key, prompt)
        Answer(id) ==
            [code |-> code,
             video_id |-> id,
             status |-> IF code = 200 THEN "processing" ELSE None,
             expected_api_key |-> expected_api_key,
             x_api_key |-> x_api_key,
             prompt |-> prompt]
    IN  /\ code = 200 \/ r = NoRequest
        /\ \E j \in JobIds \cup {0} :
              /\ IF ReachesCreate(code) \/ code = 200
                 THEN j # 0 /\ NextFreshId(j)
                 ELSE j = 0
              /\ http' = Answer(IF code = 200 THEN j ELSE 0)
              /\ IF ReachesCreate(code)
                 THEN statuses' =
                          Create(statuses, j, "Initializing video generation")
                 ELSE UNCHANGED statuses
              /\ IF code = 200
                 THEN /\ request' = [request EXCEPT ![j] = r]
                      /\ Goto(j, "start")
                 ELSE UNCHANGED <<request, pc>>
        /\ UNCHANGED <<locals, calls, files, response, videos>>
        /\ UNCHANGED <<syncVars, store_call, narrVars, timeVars, asmVars,
                       patchVars, lockVars, dbVars>>

NextApi ==
    \/ \E c \in ApiCalls, r \in Requests \cup {NoRequest} :
          PostGenerate(c[1], c[2], c[3], r)
    \/ \E j \in JobIds : JobStep(j)

\* The endpoint and the background tasks it starts.
SpecApi == Init /\ [][NextApi]_vars

\* ======================================================= the status store
\* The argument lists a client passes to StatusTracker.update: none supplied,
\* the shapes of app.py (lines 268, 298, 326, 389, 417, 432) and a single optional
\* field.
StoreArgs ==
    { NoArgs,
      [NoArgs EXCEPT !.status = "processing", !.step = 1,
                     !.step_message = "Generating Manim script"],
      [NoArgs EXCEPT !.step = 2, !.step_message = "Rendering animation"],
      [NoArgs EXCEPT !.step = 3, !.step_message = "Generating audio"],
      [NoArgs EXCEPT !.step = 4, !.step_message = "Combining audio and video"],
      [NoArgs EXCEPT !.status = "completed",
                     !.step_message = "Generation completed",
                     !.file_path = "final_video_path",
                     !.duration = "video_duration",
                     !.subtitle_path = "subtitle_path"],
      [NoArgs EXCEPT !.status = "failed",
                     !.step_message = "Generation failed",
                     !.error = "error_text"],
      [NoArgs EXCEPT !.file_path = "final_video_path"] }

\* A client calls status_tracker.create(id).
StoreCreate(id) ==
    /\ statuses' = Create(statuses, id, "Initializing")
    /\ store_call' = [op |-> "create", id |-> id, found |-> TRUE]
    /\ UNCHANGED <<pc, request, locals, calls, files, response, syncVars,
                   narrVars, timeVars, asmVars, otherVars>>

\* A client calls status_tracker.update(id, **a); found tells whether the
\* call returned the record (line 71) or None (line 52).
StoreUpdate(id, a) ==
    /\ statuses' = Update(statuses, id, a)
    /\ store_call' = [op |-> "update", id |-> id,
                      found |-> statuses[id] # NoEntry]
    /\ UNCHANGED <<pc, request, locals, calls, files, response, syncVars,
                   narrVars, timeVars, asmVars, otherVars>>

NextStore ==
    \/ \E id \in JobIds : StoreCreate(id)
    \/ \E id \in JobIds, a \in StoreArgs : StoreUpdate(id, a)
    \/ \E id \in JobIds : Age(id)
    \/ CleanupOld

\* The status store under arbitrary client calls, time passing and the sweep.
SpecStore == Init /\ [][NextStore]_vars

\* ============================================== create_synchronized_audio
\* Longest narration list drawn as input.
MaxSegments == 2

\* The 100 ms tolerance of Pass A, in milliseconds.
PadTolerance == 100

\* The default threshold of calculate_wait_adjustments, in milliseconds.
WaitThreshold == 100

\* The floor of the duration assumed for a clip measured as 0, in milliseconds.
MinFallbackDuration == 1000

\* A narration segment without the key end_time.
Absent == -1

Max(a, b) == IF a >= b THEN a ELSE b

Min(a, b) == IF a <= b THEN a ELSE b

\* The whitespace characters of the texts of the model.
Whitespace == {" ", "\n", "\t"}

\* str.lstrip(), str.rstrip() and str.strip().
RECURSIVE LStrip(_)
LStrip(t) ==
    IF t = "" THEN ""
    ELSE IF SubSeq(t, 1, 1) \in Whitespace THEN LStrip(SubSeq(t, 2, Len(t)))
    ELSE t

RECURSIVE RStrip(_)
RStrip(t) ==
    IF t = "" THEN ""
    ELSE IF SubSeq(t, Len(t), Len(t)) \in Whitespace
         THEN RStrip(SubSeq(t, 1, Len(t) - 1))
    ELSE t

Strip(t) == RStrip(LStrip(t))

\* The narration segments an input list is drawn from: the three segments of
\* the end-to-end scenario, a segment whose text is shorter than 3 characters,
\* one without end_time, one with an empty slot, one whose text is blank.
SegmentChoices ==
    { [start_time |-> 0,    end_time |-> 3000,   text |-> "Hello"],
      [start_time |-> 3000, end_time |-> 8000,   text |-> "Hello"],
      [start_time |-> 8000, end_time |-> 15000,  text |-> "Hello"],
      [start_time |-> 0,    end_time |-> 8000,   text |-> " Hi "],
      [start_time |-> 3000, end_time |-> Absent, text |-> "Hello"],
      [start_time |-> 5000, end_time |-> 5000,   text |-> "Hello"],
      [start_time |-> 0,    end_time |-> 3000,   text |-> "  "] }

\* The end-to-end scenario: timing segments (0,3), (3,8), (8,15).
Scenario ==
    << [start_time |-> 0,    end_time |-> 3000,  text |-> "Hello"],
       [start_time |-> 3000, end_time |-> 8000,  text |-> "Hello"],
       [start_time |-> 8000, end_time |-> 15000, text |-> "Hello"] >>

SegmentLists ==
    UNION {[1..n -> SegmentChoices] : n \in 1..MaxSegments} \cup {Scenario}

\* Durations get_audio_duration reports for a synthesized clip.
MeasuredDurations == {0, 2500, 2950, 4000, 5000, 6000, 7000}

\* Outcomes of the ffmpeg subprocess that appends silence.
PadOutcomes == {"ok", "nonzero", "raise"}

\* lines 357-364: segments whose stripped text is empty are skipped.
IsValidSegment(seg) == Strip(seg.text) # ""

\* The stripped text sent to the synthesizer whatever its length.
SpokenTextAnyLength(seg) == Strip(seg.text)

\* lines 376-380: the text sent to the synthesizer.
SpokenText(seg) ==
    IF Len(Strip(seg.text)) < 3 THEN "Pause." ELSE Strip(seg.text)

\* segment.get("end_time", 0) at line 403.
EndTimeOrZero(seg) == IF seg.end_time = Absent THEN 0 ELSE seg.end_time

\* lines 401-403: the measured duration, replaced when it is not positive.
ActualDuration(seg, measured) ==
    IF measured <= 0
    THEN Max(EndTimeOrZero(seg) - seg.start_time, MinFallbackDuration)
    ELSE measured

\* lines 405-407.
PlannedEnd(seg, actual_duration) ==
    IF seg.end_time # Absent THEN seg.end_time
    ELSE seg.start_time + actual_duration

\* lines 409-410.
PlannedDuration(seg, actual_duration) ==
    PlannedEnd(seg, actual_duration) - seg.start_time

\* Padding without the 100 ms tolerance.
NeedsPaddingNoTolerance(actual_duration, planned_duration) ==
    actual_duration < planned_duration

\* line 413: the audio is shorter than its slot by more than the tolerance.
NeedsPadding(actual_duration, planned_duration) ==
    actual_duration < planned_duration - PadTolerance

\* A reconciler that fits the audio to the slot in both directions.
DurationFittedToSlot(actual_duration, planned_duration, padded) ==
    IF padded \/ actual_duration > planned_duration THEN planned_duration
    ELSE actual_duration

\* lines 445-452: the duration after the padding step; a clip longer than its
\* slot is left as it is.
DurationAfterPadding(actual_duration, planned_duration, padded) ==
    IF padded THEN planned_duration ELSE actual_duration

\* Silence that stops short of the slot by the tolerance.
SilenceUpToTolerance(actual_duration, planned_duration) ==
    planned_duration - actual_duration - PadTolerance

\* line 414: the silence appended to a short clip.
SilenceNeeded(actual_duration, planned_duration) ==
    planned_duration - actual_duration

\* lines 454-455 and 473: the value stored under planned_end is adjusted_end.
ReportedPlannedEnd(planned_end, actual_end) == Max(planned_end, actual_end)

\* lines 400-474: Pass A for one segment. measured and silence record what
\* the probe reported and how much silence the clip was given.
PassA(seg, measured, pad) ==
    LET actual_duration  == ActualDuration(seg, measured)
        start_time       == seg.start_time
        planned_end      == PlannedEnd(seg, actual_duration)
        planned_duration == planned_end - start_time
        attempted        == NeedsPadding(actual_duration, planned_duration)
        padded           == attempted /\ pad = "ok"
        duration         == DurationAfterPadding(actual_duration,
                                                 planned_duration, padded)
        actual_end       == start_time + duration
        adjusted_end     == Max(planned_end, actual_end)
    IN  [path          |-> IF padded THEN "padded" ELSE "segment",
         start_time    |-> start_time,
         end_time      |-> adjusted_end,
         duration      |-> duration,
         text          |-> SpokenText(seg),
         planned_start |-> start_time,
         planned_end   |-> ReportedPlannedEnd(planned_end, actual_end),
         measured      |-> measured,
         pad_attempted |-> attempted,
         silence       |-> IF padded
                           THEN SilenceNeeded(actual_duration, planned_duration)
                           ELSE 0]

\* lines 478-483: cumulative re-sequencing.
RECURSIVE Resequence(_, _)
Resequence(segs, cumulative_time) ==
    IF segs = <<>> THEN <<>>
    ELSE LET s == [Head(segs) EXCEPT
                      !.start_time = cumulative_time,
                      !.end_time = cumulative_time + Head(segs).duration]
         IN  <<s>> \o Resequence(Tail(segs), s.end_time)

\* The timeline left at the planned offsets.
PassBKeepsPlanned(segs) == segs

\* lines 476-491: Pass B.
PassB(segs) == Resequence(segs, 0)

\* lines 500-510.
Metadata(segs) ==
    [i \in 1..Len(segs) |->
        [segment_index  |-> i - 1,
         planned_start  |-> segs[i].planned_start,
         planned_end    |-> segs[i].planned_end,
         actual_start   |-> segs[i].start_time,
         actual_end     |-> segs[i].end_time,
         audio_duration |-> segs[i].duration,
         text           |-> segs[i].text]]

\* ---------------------------------------------- calculate_wait_adjustments
\* round(x, 2) on a time in milliseconds: to the nearest 10 ms.
Round2(x) == ((x + 5) \div 10) * 10

\* An adjustment for every segment whose audio is not shorter than the video.
NeedsAdjustmentNoThreshold(duration_diff, threshold) == duration_diff >= 0

\* An adjustment also when the mismatch is exactly the threshold.
NeedsAdjustmentAtThreshold(duration_diff, threshold) == duration_diff >= threshold

\* line 54.
NeedsAdjustment(duration_diff, threshold) == duration_diff > threshold

\* lines 39-62: the adjustments of the first n zipped pairs.
RECURSIVE AdjustmentsUpTo(_, _, _, _)
AdjustmentsUpTo(timing_segments, audio_segs, threshold, n) ==
    IF n = 0 THEN <<>>
    ELSE LET video_duration == timing_segments[n].end_time
                                   - timing_segments[n].start_time
             audio_duration == audio_segs[n].audio_duration
             duration_diff  == audio_duration - video_duration
             before == AdjustmentsUpTo(timing_segments, audio_segs,
                                       threshold, n - 1)
         IN  IF NeedsAdjustment(duration_diff, threshold)
             THEN Append(before,
                         [segment_index  |-> n - 1,
                          wait_duration  |-> Round2(duration_diff),
                          video_duration |-> Round2(video_duration),
                          audio_duration |-> Round2(audio_duration)])
             ELSE before

\* lines 16-78.
CalculateWaitAdjustments(timing_segments, audio_segs, threshold) ==
    AdjustmentsUpTo(timing_segments, audio_segs, threshold,
                    Min(Len(timing_segments), Len(audio_segs)))

\* lines 424-452 and 521-522: the padding subprocess is started and awaited
\* outside any handler of its own, so an exception it raises leaves the
\* function through the handler of line 521; a non-zero exit is logged.
PadAborts(attempted, pad) == attempted /\ pad = "raise"

\* ----------------------------------------------------------- the steps
SyncInit ==
    /\ syncPc = "filter"
    /\ narration_segments \in SegmentLists
    /\ valid_segments = <<>>
    /\ audio_segments = <<>>
    /\ handed = <<>>
    /\ segment_metadata = <<>>
    /\ adjustments = <<>>
    /\ tts_input = None
    /\ pad_result = None

\* lines 357-369: the filter; no valid segment raises.
SyncFilter ==
    /\ syncPc = "filter"
    /\ valid_segments' = SelectSeq(narration_segments, IsValidSegment)
    /\ syncPc' = IF valid_segments' = <<>> THEN "raised" ELSE "pass_a"
    /\ UNCHANGED <<narration_segments, audio_segments, handed,
                   segment_metadata, adjustments, tts_input>>
    /\ UNCHANGED <<pad_result, jobVars, fnVars>>

\* lines 375-474: one iteration of the synthesis loop. The synthesis call and
\* the padding subprocess may raise, which leaves the function at line 521.
\* pad_result is the outcome of the padding attempt of this iteration, None
\* when there was none.
SyncSegment ==
    /\ syncPc = "pass_a"
    /\ LET seg == valid_segments[Len(audio_segments) + 1] IN
       /\ tts_input' = SpokenText(seg)
       /\ \/ /\ syncPc' = "raised"
             /\ pad_result' = None
             /\ UNCHANGED audio_segments
          \/ \E measured \in MeasuredDurations, pad \in PadOutcomes :
                LET actual_duration == ActualDuration(seg, measured)
                    attempted == NeedsPadding(actual_duration,
                                     PlannedDuration(seg, actual_duration))
                IN  /\ pad_result' = IF attempted THEN pad ELSE None
                    /\ IF PadAborts(attempted, pad)
                       THEN /\ syncPc' = "raised"
                            /\ UNCHANGED audio_segments
                       ELSE /\ audio_segments' =
                                   Append(audio_segments, PassA(seg, measured, pad))
                            /\ syncPc' = IF Len(audio_segments') = Len(valid_segments)
                                         THEN "pass_b" ELSE "pass_a"
    /\ UNCHANGED <<narration_segments, valid_segments, handed,
                   segment_metadata, adjustments>>
    /\ UNCHANGED <<jobVars, fnVars>>

\* lines 476-491.
SyncResequence ==
    /\ syncPc = "pass_b"
    /\ audio_segments' = PassB(audio_segments)
    /\ syncPc' = "combine"
    /\ UNCHANGED <<narration_segments, valid_segments, handed,
                   segment_metadata, adjustments, tts_input>>
    /\ UNCHANGED <<pad_result, jobVars, fnVars>>

\* lines 493-495: the timeline is handed to combine_audio_segments, which
\* returns or raises.
SyncCombine ==
    /\ syncPc = "combine"
    /\ handed' = audio_segments
    /\ \/ syncPc' = "metadata"
       \/ syncPc' = "raised"
    /\ UNCHANGED <<narration_segments, valid_segments, audio_segments,
                   segment_metadata, adjustments, tts_input>>
    /\ UNCHANGED <<pad_result, jobVars, fnVars>>

\* lines 497-519.
SyncReturn ==
    /\ syncPc = "metadata"
    /\ segment_metadata' = Metadata(audio_segments)
    /\ syncPc' = "returned"
    /\ UNCHANGED <<narration_segments, valid_segments, audio_segments,
                   handed, adjustments, tts_input>>
    /\ UNCHANGED <<pad_result, jobVars, fnVars>>

\* The timing segments the narration was composed for have an end_time.
HasTiming(segs) == \A i \in 1..Len(segs) : segs[i].end_time # Absent

\* calculate_wait_adjustments on the timing segments of the narration and the
\* returned metadata, with the default threshold.
SyncAdjust ==
    /\ syncPc = "returned"
    /\ HasTiming(narration_segments)
    /\ adjustments' = CalculateWaitAdjustments(narration_segments,
                                               segment_metadata, WaitThreshold)
    /\ syncPc' = "adjusted"
    /\ UNCHANGED <<narration_segments, valid_segments, audio_segments,
                   handed, segment_metadata, tts_input>>
    /\ UNCHANGED <<pad_result, jobVars, fnVars>>

\* ------------------------------------------------------- generate_tts_audio
\* Narration texts handed to generate_tts_audio: empty, blank, shorter than
\* three characters with and without padding, exactly three, longer.
TtsTexts == {"", " \n", "Hi", " a ", " ab  ", "abc", "  Hello world \n"}

\* lines 1004-1009: the text sent to the synthesizer.
TtsText(text) ==
    Strip(IF text = "" \/ Len(Strip(text)) < 3
          THEN "Educational animation content."
          ELSE text)

\* The other branch of the audio step (app.py lines 334-376): the job calls
\* generate_tts_audio instead of create_synchronized_audio.
GenerateTtsAudio(text) ==
    /\ syncPc = "filter"
    /\ tts_input' = TtsText(text)
    /\ syncPc' = "tts"
    /\ UNCHANGED <<narration_segments, valid_segments, audio_segments,
                   handed, segment_metadata, adjustments>>
    /\ UNCHANGED <<pad_result, jobVars, fnVars>>

NextSync ==
    \/ \E text \in TtsTexts : GenerateTtsAudio(text)
    \/ SyncFilter
    \/ SyncSegment
    \/ SyncResequence
    \/ SyncCombine
    \/ SyncReturn
    \/ SyncAdjust

InitSync == JobInit /\ SyncInit /\ FnIdle

\* The audio step: create_synchronized_audio on every input list, followed by
\* calculate_wait_adjustments, or generate_tts_audio.
SpecSync == InitSync /\ [][NextSync]_vars

\* generate_subtitle_file_from_segments, lines 779-784: one caption for every
\* narration segment, from the start_time and end_time the segment has when
\* the file is written (app.py 344-346, before create_synchronized_audio).
CaptionIntervals(segs) ==
    [i \in 1..Len(segs) |->
        [start |-> segs[i].start_time, end |-> segs[i].end_time]]

\* ------------------------------------- calculate_wait_adjustments alone
\* calculate_wait_adjustments on the metadata create_synchronized_audio
\* returns for timing segments with a slot, for clips measured below, at,
\* just above and well above the slot, padded or not, and on a metadata list
\* shorter than the timing list (zip stops at the shorter one).
AdjustSegments == {seg \in SegmentChoices : seg.text = "Hello" /\ seg.end_time \in {3000, 8000, 5000}}

AdjustDurations == {2500, 3104, 5000, 5100, 6000}

AdjustTimings == UNION {[1..n -> AdjustSegments] : n \in 1..MaxSegments}

\* Pass A over the segments, clip i measuring measured[i] and its padding run
\* ending as pad[i].
RECURSIVE PassAOver(_, _, _, _)
PassAOver(segs, measured, pad, n) ==
    IF n = 0 THEN <<>>
    ELSE Append(PassAOver(segs, measured, pad, n - 1),
                PassA(segs[n], measured[n], pad[n]))

InitAdjust ==
    /\ JobInit /\ FnIdle
    /\ syncPc = "returned"
    /\ narration_segments \in AdjustTimings
    /\ \E k \in 1..Len(narration_segments) :
          /\ valid_segments = SubSeq(narration_segments, 1, k)
          /\ \E measured \in [1..k -> AdjustDurations],
                pad \in [1..k -> {"ok", "nonzero"}] :
                audio_segments = PassB(PassAOver(valid_segments, measured, pad, k))
    /\ handed = audio_segments
    /\ segment_metadata = Metadata(audio_segments)
    /\ adjustments = <<>>
    /\ tts_input = None
    /\ pad_result = None

NextAdjust == SyncAdjust

SpecAdjust == InitAdjust /\ [][NextAdjust]_vars

\* ------------------------------------------- StatusTracker under threads
\* Two threads call StatusTracker.update on a record that exists. Each call
\* takes the lock (line 50), runs lines 51-71 while holding it, and gives it
\* back on leaving the with block.
LockFree(l, t) == l = 0

ThreadCall(t, id, a) ==
    /\ threads[t].pc = "idle"
    /\ threads' = [threads EXCEPT ![t] = [pc |-> "waiting", id |-> id, a |-> a]]
    /\ UNCHANGED <<lock, jobVars, syncVars, store_call, narrVars, timeVars,
                   asmVars, patchVars, apiVars, dbVars>>

\* line 50: with self._lock.
ThreadAcquire(t) ==
    /\ threads[t].pc = "waiting"
    /\ LockFree(lock, t)
    /\ lock' = t
    /\ threads' = [threads EXCEPT ![t].pc = "locked"]
    /\ UNCHANGED <<jobVars, syncVars, store_call, narrVars, timeVars,
                   asmVars, patchVars, apiVars, dbVars>>

\* lines 51-71, run by the holder of the lock.
ThreadUpdate(t) ==
    /\ threads[t].pc = "locked"
    /\ statuses' = Update(statuses, threads[t].id, threads[t].a)
    /\ threads' = [threads EXCEPT ![t].pc = "updated"]
    /\ UNCHANGED <<lock, pc, request, locals, calls, files, response, syncVars,
                   store_call, narrVars, timeVars, asmVars, patchVars, apiVars,
                   dbVars>>

\* The end of the with block.
ThreadRelease(t) ==
    /\ threads[t].pc = "updated"
    /\ lock' = 0
    /\ threads' = [threads EXCEPT ![t].pc = "done"]
    /\ UNCHANGED <<jobVars, syncVars, store_call, narrVars, timeVars,
                   asmVars, patchVars, apiVars, dbVars>>

\* The record the threads update: created, nothing else done to it.
ThreadRecord(id) ==
    Create([j \in JobIds |-> NoEntry], id, "Initializing video generation")

InitThreads ==
    /\ statuses \in {ThreadRecord(id) : id \in JobIds}
    /\ pc = [j \in JobIds |-> "idle"]
    /\ request = [j \in JobIds |-> NoRequest]
    /\ locals = [j \in JobIds |-> InitLocals]
    /\ calls = [j \in JobIds |-> InitCalls]
    /\ files = {}
    /\ response = NoResponse
    /\ SyncIdle /\ FnIdle

NextThreads ==
    \/ \E t \in Threads, id \in JobIds, a \in StoreArgs :
          statuses[id] # NoEntry /\ ThreadCall(t, id, a)
    \/ \E t \in Threads : ThreadAcquire(t)
    \/ \E t \in Threads : ThreadUpdate(t)
    \/ \E t \in Threads : ThreadRelease(t)

SpecThreads == InitThreads /\ [][NextThreads]_vars

\* ------------------------------------------------------------- db.py
\* The tables of db.py. A row of videos keeps the columns the functions
\* write; a row of video_statuses is (video_id, step, message). The schema is
\* not part of the repository: the ON CONFLICT clauses of lines 51 and 116
\* name the unique keys (video_id) and (video_id, step).
DbStatuses == {"processing", "failed"}
DbSteps == {1, 2}
DbMessages == {"First message", "Second message"}
DbExtras ==
    {[video_url |-> None, subtitle_path |-> None, duration |-> NoneInt],
     [video_url |-> "/media/v.mp4", subtitle_path |-> None, duration |-> 15]}

\* COALESCE(:x, x) of lines 96-98.
Coalesce(new, old, none) == IF new # none THEN new ELSE old

StatusRows(rows, v) == {r \in rows : r.video_id = v}

\* create_video_record, lines 37-64: ON CONFLICT (video_id) DO NOTHING.
DbCreateVideoRecord(v, prompt) ==
    /\ videos' = IF videos[v] # NoEntry THEN videos
                 ELSE [videos EXCEPT ![v] =
                          [status |-> "pending", prompt |-> prompt,
                           video_url |-> None, subtitle_path |-> None,
                           duration |-> NoneInt]]
    /\ UNCHANGED <<http, dbVars, lockVars, jobVars, syncVars, store_call,
                   narrVars, timeVars, asmVars, patchVars>>

\* The INSERT ... ON CONFLICT (video_id, step) DO UPDATE of lines 113-126.
UpsertStatus(rows, v, step, message) ==
    {r \in rows : ~(r.video_id = v /\ r.step = step)}
        \cup {[video_id |-> v, step |-> step, message |-> message]}

\* update_video_status, lines 67-128, for a video that has its row.
DbUpdateVideoStatus(v, status, step, message, x) ==
    /\ videos[v] # NoEntry
    /\ videos' = [videos EXCEPT ![v] =
          [@ EXCEPT !.status = status,
                    !.video_url = Coalesce(x.video_url, @, None),
                    !.subtitle_path = Coalesce(x.subtitle_path, @, None),
                    !.duration = Coalesce(x.duration, @, NoneInt)]]
    /\ video_statuses' = UpsertStatus(video_statuses, v, step, message)
    /\ db_last' = [db_last EXCEPT ![v] =
          [status |-> status, step |-> step, message |-> message]]
    /\ UNCHANGED <<http, db_result, lockVars, jobVars, syncVars, store_call,
                   narrVars, timeVars, asmVars, patchVars>>

\* The row that ORDER BY step DESC LIMIT 1 selects, lines 163-173.
LatestStatusRow(rows, v) ==
    CHOOSE r \in StatusRows(rows, v) :
        \A q \in StatusRows(rows, v) : q.step <= r.step

\* get_video_status, lines 131-182.
get_video_status(vs, rows, v) ==
    IF vs[v] = NoEntry THEN None
    ELSE [video_id |-> v,
          status |-> vs[v].status,
          step |-> IF StatusRows(rows, v) # {}
                   THEN LatestStatusRow(rows, v).step ELSE 0,
          message |-> IF StatusRows(rows, v) # {}
                      THEN LatestStatusRow(rows, v).message ELSE "",
          video_url |-> vs[v].video_url,
          subtitle_path |-> vs[v].subtitle_path,
          duration |-> vs[v].duration]

DbGetVideoStatus(v) ==
    /\ db_result' = get_video_status(videos, video_statuses, v)
    /\ UNCHANGED <<apiVars, video_statuses, db_last, lockVars, jobVars,
                   syncVars, store_call, narrVars, timeVars, asmVars,
                   patchVars>>

InitDb == JobInit /\ SyncIdle /\ FnIdle

NextDb ==
    \/ \E v \in JobIds : DbCreateVideoRecord(v, "Test")
    \/ \E v \in JobIds, status \in DbStatuses, step \in DbSteps,
           message \in DbMessages, x \in DbExtras :
          DbUpdateVideoStatus(v, status, step, message, x)
    \/ \E v \in JobIds : DbGetVideoStatus(v)

SpecDb == InitDb /\ [][NextDb]_vars

\* ------------------------------------------------------ two jobs at once
\* Two background tasks on the one status store, their steps interleaved at
\* the awaits of generate_video_background.
PairIds == {1, 2}

InitPair ==
    /\ statuses = [j \in PairIds |-> NoEntry]
    /\ pc = [j \in PairIds |-> "idle"]
    /\ request = [j \in PairIds |-> NoRequest]
    /\ locals = [j \in PairIds |-> InitLocals]
    /\ calls = [j \in PairIds |-> InitCalls]
    /\ files = {}
    /\ response = NoResponse
    /\ SyncIdle /\ FnIdle

\* asyncio.create_task at app.py line 244 for each request; the event loop
\* runs the tasks between their awaits.
NextPair ==
    \/ \E j \in PairIds, r \in Requests :
          /\ \A k \in PairIds : k < j => pc[k] # "idle"
          /\ Generate(j, r)
    \/ \E j \in PairIds : JobStep(j)

SpecPair == InitPair /\ [][NextPair]_vars

\* ------------------------------------------------- one job, stage by stage
\* The job of id 1 with the call of create_synchronized_audio at app.py
\* lines 355-357 unfolded into its steps: while the task waits at that line
\* the steps of the function run, and the task goes on when the function has
\* returned or raised. narration_segments is the list that
\* generate_timed_narration hands over.
StageJob == CHOOSE j \in JobIds : \A k \in JobIds : j <= k

\* Every step of the task except the call of create_synchronized_audio.
StageJobStep(j) ==
    \/ BgStart(j) \/ ScriptGen(j) \/ Step2(j) \/ Render1(j) \/ Fix(j)
    \/ Render2(j) \/ Step3(j) \/ ProbeVideo(j) \/ ExtractTiming(j)
    \/ ComposeNarration(j) \/ Subtitles(j)
    \/ ExtractNarration(j) \/ Tts(j) \/ AddSubtitles(j) \/ AdjustAudio(j)
    \/ Step4(j) \/ Combine(j) \/ RemoveAudio(j) \/ Move(j) \/ FinalProbe(j)
    \/ FinalUpdate(j) \/ CleanupFileProcessor(j) \/ Except(j) \/ CleanupTemp(j)

\* audio_processor.py lines 355-522, entered from app.py line 355.
StageSyncStep ==
    /\ pc[StageJob] = "sync_audio"
    /\ \/ SyncFilter
       \/ SyncSegment
       \/ SyncResequence
       \/ SyncCombine
       \/ SyncReturn

\* app.py lines 355-357: the call returns the pair, or its exception reaches
\* the handler of line 429.
StageSyncAudio ==
    /\ pc[StageJob] = "sync_audio"
    /\ \/ /\ syncPc = "returned"
          /\ locals' = [locals EXCEPT ![StageJob].audio_path = "tuple"]
          /\ Goto(StageJob, "step4")
       \/ /\ syncPc = "raised"
          /\ Goto(StageJob, "except")
          /\ UNCHANGED locals
    /\ UNCHANGED <<statuses, request, calls, files, response, syncVars, fnVars>>

NextStages ==
    \/ \E r \in Requests : Generate(StageJob, r)
    \/ StageJobStep(StageJob)
    \/ StageSyncStep
    \/ StageSyncAudio

\* The narrations of this specification: lists of the first two segments of
\* the scenario and of the blank segment.
StageSegmentLists ==
    {l \in SegmentLists :
        \A i \in 1..Len(l) : l[i].end_time \in {3000, 8000} /\ l[i].text # " Hi "}

InitStages == InitSync /\ narration_segments \in StageSegmentLists

SpecStages == InitStages /\ [][NextStages]_vars

\* ====================================================== narration composer
\* Times of the narration are in milliseconds, as everywhere in this module.
\* The code fence marker. A backquote cannot be written in a string of this
\* module: the three backquotes of the source are written as three tildes.
Fence == "~~~"

\* str.startswith and str.endswith.
StartsWith(t, prefix) ==
    Len(t) >= Len(prefix) /\ SubSeq(t, 1, Len(prefix)) = prefix

EndsWith(t, suffix) ==
    Len(t) >= Len(suffix) /\ SubSeq(t, Len(t) - Len(suffix) + 1, Len(t)) = suffix

\* The slices t[n:] and t[:-n].
DropFirst(t, n) == SubSeq(t, n + 1, Len(t))

DropLast(t, n) == SubSeq(t, 1, Len(t) - n)

\* str.lower() on the letters that occur in upper case in the model.
LowerChar(c) ==
    CASE c = "J" -> "j"
      [] c = "S" -> "s"
      [] c = "O" -> "o"
      [] c = "N" -> "n"
      [] OTHER -> c

RECURSIVE Lower(_)
Lower(t) ==
    IF t = "" THEN "" ELSE LowerChar(SubSeq(t, 1, 1)) \o Lower(DropFirst(t, 1))

\* Index of the first and of the last occurrence of character c, 0 if none.
RECURSIVE FirstIndexFrom(_, _, _)
FirstIndexFrom(t, c, i) ==
    IF i > Len(t) THEN 0
    ELSE IF SubSeq(t, i, i) = c THEN i
    ELSE FirstIndexFrom(t, c, i + 1)

RECURSIVE LastIndexFrom(_, _, _)
LastIndexFrom(t, c, i) ==
    IF i < 1 THEN 0
    ELSE IF SubSeq(t, i, i) = c THEN i
    ELSE LastIndexFrom(t, c, i - 1)

\* re.search(r"(\[[\s\S]+\])", t): the leftmost "[" and, greedily, the last
\* "]" with at least one character between them; None without a match.
RegexArray(t) ==
    LET first == FirstIndexFrom(t, "[", 1)
        last == LastIndexFrom(t, "]", Len(t))
    IN  IF first > 0 /\ last >= first + 2 THEN SubSeq(t, first, last) ELSE None

\* extract_json_array, lines 280-287: the text without its fence markers.
FenceStripped(text) ==
    LET stripped == Strip(text)
        opened ==
            IF StartsWith(stripped, Fence)
            THEN LET rest == LStrip(DropFirst(stripped, 3))
                 IN  IF Lower(SubSeq(rest, 1, Min(4, Len(rest)))) = "json"
                     THEN LStrip(DropFirst(rest, 4))
                     ELSE rest
            ELSE stripped
        closed ==
            IF EndsWith(opened, Fence) THEN RStrip(DropLast(opened, 3))
            ELSE opened
    IN  Strip(closed)

\* line 288: the condition of the bracket scan.
NeedsBracketScan(cleaned) ==
    cleaned # "" /\ SubSeq(cleaned, 1, 1) \notin {"[", "{"}

\* extract_json_array, lines 279-293.
extract_json_array(text) ==
    LET cleaned == FenceStripped(text)
        scanned ==
            IF NeedsBracketScan(cleaned) /\ RegexArray(cleaned) # None
            THEN Strip(RegexArray(cleaned))
            ELSE cleaned
    IN  IF scanned = "" THEN text ELSE scanned

\* ----------------------------------------------------------- JSON values
JArray(items) == [kind |-> "array", items |-> items]

JObject(members) == [kind |-> "object", members |-> members]

JNumber(n) == [kind |-> "number", n |-> n]

DecodeError == [kind |-> "JSONDecodeError"]

NoJson == [kind |-> "none"]

\* JSON texts of timing segments: well formed, and one without description.
TimingTextA == "{\"start_time\":0,\"end_time\":3,\"description\":\"Title\"}"

TimingTextB == "{\"start_time\":3,\"end_time\":8,\"description\":\"Triangle\"}"

TimingTextC == "{\"start_time\":8,\"end_time\":15,\"description\":\"Squares\"}"

TimingTextD == "{\"start_time\":0,\"end_time\":3}"

TimingA == JObject([start_time |-> 0, end_time |-> 3000, description |-> "Title"])

TimingB == JObject([start_time |-> 3000, end_time |-> 8000, description |-> "Triangle"])

TimingC == JObject([start_time |-> 8000, end_time |-> 15000, description |-> "Squares"])

TimingD == JObject([start_time |-> 0, end_time |-> 3000])

\* JSON texts of narration segments: well formed, and one whose text is too
\* short and whose slot is empty.
NarrationTextA == "{\"start_time\":0,\"end_time\":3,\"text\":\"Hello there\"}"

NarrationTextB == "{\"start_time\":3,\"end_time\":3,\"text\":\" Hi \"}"

NarrationA == JObject([start_time |-> 0, end_time |-> 3000, text |-> "Hello there"])

NarrationB == JObject([start_time |-> 3000, end_time |-> 3000, text |-> " Hi "])

\* json.loads on the JSON texts of the model: every well-formed text the
\* model can hand to json.loads, with the value it denotes.
JsonTable ==
    { <<"[]", JArray(<<>>)>>,
      <<"{}", JObject(<<>>)>>,
      <<"5", JNumber(5)>>,
      <<"[5]", JArray(<<JNumber(5)>>)>>,
      <<"[{}]", JArray(<<JObject(<<>>)>>)>>,
      <<"[" \o TimingTextA \o "]", JArray(<<TimingA>>)>>,
      <<"[" \o TimingTextD \o "]", JArray(<<TimingD>>)>>,
      <<"[" \o TimingTextA \o "," \o TimingTextB \o "," \o TimingTextC \o "]",
        JArray(<<TimingA, TimingB, TimingC>>)>>,
      <<"[" \o NarrationTextA \o "]", JArray(<<NarrationA>>)>>,
      <<"[" \o NarrationTextA \o "," \o NarrationTextB \o "]",
        JArray(<<NarrationA, NarrationB>>)>> }

\* json.loads: leading and trailing whitespace is ignored; any other text is
\* not JSON and raises JSONDecodeError.
JsonLoads(t) ==
    IF \E e \in JsonTable : e[1] = Strip(t)
    THEN (CHOOSE e \in JsonTable : e[1] = Strip(t))[2]
    ELSE DecodeError

\* ------------------------------------------------ extract_animation_timing
\* lines 201-205 and 209-213: the fixed skeleton.
Skeleton ==
    JArray(<< JObject([start_time |-> 0, end_time |-> 10000,
                       description |-> "Introduction",
                       content |-> "Animation introduction"]),
              JObject([start_time |-> 10000, end_time |-> 20000,
                       description |-> "Main content",
                       content |-> "Main educational content"]),
              JObject([start_time |-> 20000, end_time |-> 30000,
                       description |-> "Conclusion",
                       content |-> "Summary and conclusion"]) >>)

\* An LLM call that raises.
Raise == [kind |-> "raise"]

NoLlmResponse == [kind |-> "none"]

\* Outcomes of the LLM call of extract_animation_timing: it raises, or it
\* answers with text: three segments, one segment, no segment, a segment
\* without description, an object, a number, a fenced array, a refusal.
TimingOutcomes ==
    {Raise} \cup
    { [kind |-> "text", text |-> t] :
        t \in { "[" \o TimingTextA \o "," \o TimingTextB \o ","
                    \o TimingTextC \o "]",
                "[" \o TimingTextA \o "]",
                "[]",
                "[" \o TimingTextD \o "]",
                "{}",
                "5",
                Fence \o "json\n[" \o TimingTextA \o "]\n" \o Fence,
                "I cannot analyze this script." } }

\* extract_animation_timing, lines 177-213.
extract_animation_timing(outcome) ==
    IF outcome.kind = "raise" THEN Skeleton
    ELSE IF JsonLoads(outcome.text) = DecodeError THEN Skeleton
    ELSE JsonLoads(outcome.text)

\* ------------------------------------------------ generate_timed_narration
\* line 259: timing_info reads start_time, end_time and description of every
\* element of timing_segments, outside the try block. Enumerating a number
\* raises TypeError, the keys of a non-empty object are strings and cannot be
\* subscripted by a key, an element that is no object or lacks one of the
\* keys raises TypeError or KeyError.
TimingInfoRaises(timing) ==
    CASE timing.kind = "number" -> TRUE
      [] timing.kind = "object" -> DOMAIN timing.members # {}
      [] timing.kind = "array" ->
            \E i \in 1..Len(timing.items) :
                \/ timing.items[i].kind # "object"
                \/ ~({"start_time", "end_time", "description"}
                        \subseteq DOMAIN timing.items[i].members)

\* len(timing_segments) at line 328.
TimingLen(timing) ==
    CASE timing.kind = "array" -> Len(timing.items)
      [] timing.kind = "object" -> Cardinality(DOMAIN timing.members)

\* The ways the LLM wraps its payload: bare, in a code fence, in a code fence
\* tagged json, after a sentence of prose.
Wraps == {"bare", "fence", "fence_json", "prose"}

Wrapped(wrap, payload) ==
    CASE wrap = "bare" -> payload
      [] wrap = "fence" -> Fence \o "\n" \o payload \o "\n" \o Fence
      [] wrap = "fence_json" -> Fence \o "json\n" \o payload \o "\n" \o Fence
      [] wrap = "prose" -> "Here is the narration:\n" \o payload

\* Payloads of the LLM call of generate_timed_narration: arrays of two, one
\* and no segment, an array of an empty object, an array of a number, an
\* empty object, a number, a refusal.
NarrationPayloads ==
    { "[" \o NarrationTextA \o "," \o NarrationTextB \o "]",
      "[" \o NarrationTextA \o "]",
      "[]",
      "[{}]",
      "[5]",
      "{}",
      "5",
      "I cannot narrate this script." }

NarrationOutcomes ==
    {Raise} \cup
    { [kind |-> "text", wrap |-> w, payload |-> p, text |-> Wrapped(w, p)] :
        w \in Wraps, p \in NarrationPayloads }

\* len(text.split()), line 319.
RECURSIVE WordCount(_, _)
WordCount(t, inWord) ==
    IF t = "" THEN 0
    ELSE IF SubSeq(t, 1, 1) \in Whitespace
         THEN WordCount(DropFirst(t, 1), FALSE)
    ELSE (IF inWord THEN 0 ELSE 1) + WordCount(DropFirst(t, 1), TRUE)

\* lines 301-320: one iteration of the cleaning loop, on the i-th element.
CleanSegment(members, i) ==
    LET raw_text == IF "text" \in DOMAIN members THEN members.text ELSE ""
        stripped == Strip(raw_text)
        start_time == IF "start_time" \in DOMAIN members
                      THEN members.start_time ELSE 0
        end_time == IF "end_time" \in DOMAIN members
                    THEN members.end_time ELSE 10000
        text == IF stripped = "" \/ Len(stripped) < 3
                THEN "Animation segment " \o ToString(i) \o "."
                ELSE stripped
    IN  [start_time |-> start_time,
         end_time |-> IF end_time <= start_time THEN start_time + 3000
                      ELSE end_time,
         text |-> text,
         words |-> WordCount(text, FALSE)]

\* The loop at line 301 raises inside the outer try: a number cannot be
\* enumerated, the keys of a non-empty object and the elements that are no
\* objects have no method get.
CleaningRaises(value) ==
    CASE value.kind = "number" -> TRUE
      [] value.kind = "object" -> DOMAIN value.members # {}
      [] value.kind = "array" ->
            \E i \in 1..Len(value.items) : value.items[i].kind # "object"

\* lines 300-322: the cleaned segments of a value the loop accepts.
CleanedSegments(value) ==
    IF value.kind = "array"
    THEN [i \in 1..Len(value.items) |-> CleanSegment(value.items[i].members, i)]
    ELSE <<>>

GenericText == "Educational animation explaining the concept step by step."

\* lines 327-330: the fallback of the JSONDecodeError handler.
DecodeFallback(timing) ==
    << [start_time |-> 0, end_time |-> TimingLen(timing) * 10000,
        text |-> GenericText, words |-> 8] >>

\* lines 334-337: the fallback of the outer handler.
ExceptFallback ==
    << [start_time |-> 0, end_time |-> 30000,
        text |-> GenericText, words |-> 8] >>

\* ------------------------------------------------------ get_audio_duration
\* Outcomes of the ffmpeg probe: the subprocess raises, its output has no
\* Duration line, or it has one with two or three fraction digits.
ProbeOutcomes ==
    { [kind |-> "raise"], [kind |-> "no_match"] } \cup
    [kind : {"match"}, hours : {0}, minutes : {0, 1}, seconds : {0, 5},
     digits : {2, 3}, fraction : {0, 25}]

\* get_audio_duration, lines 41-93, in milliseconds. The first pattern asks
\* for two fraction digits and also matches the first two of three, so the
\* pattern with three digits never gets its turn.
get_audio_duration(outcome) ==
    IF outcome.kind \in {"raise", "no_match"} THEN 10000
    ELSE LET centiseconds == IF outcome.digits = 3
                             THEN outcome.fraction \div 10
                             ELSE outcome.fraction
         IN  outcome.hours * 3600000 + outcome.minutes * 60000
                 + outcome.seconds * 1000 + centiseconds * 10

\* ----------------------------------------------------------- the steps
NarrInit ==
    /\ narrPc = "extract_timing"
    /\ timing_result = NoJson
    /\ llm_response = NoLlmResponse
    /\ narration_payload = None
    /\ narration_out = <<>>
    /\ probe_out = NoneInt

\* app.py line 336: timing_segments = await extract_animation_timing(...).
ExtractAnimationTiming(outcome) ==
    /\ narrPc = "extract_timing"
    /\ timing_result' = extract_animation_timing(outcome)
    /\ narrPc' = "timing_info"
    /\ UNCHANGED <<llm_response, narration_payload, narration_out, probe_out>>
    /\ UNCHANGED <<jobVars, syncVars, store_call, timeVars, asmVars, otherVars>>

\* generate_timed_narration, line 259.
NarrTimingInfo ==
    /\ narrPc = "timing_info"
    /\ narrPc' = IF TimingInfoRaises(timing_result) THEN "raised" ELSE "llm"
    /\ UNCHANGED <<timing_result, llm_response, narration_payload,
                   narration_out, probe_out>>
    /\ UNCHANGED <<jobVars, syncVars, store_call, timeVars, asmVars, otherVars>>

\* lines 262-276 and 332-337: the LLM call.
NarrLlm(outcome) ==
    /\ narrPc = "llm"
    /\ llm_response' = outcome
    /\ IF outcome.kind = "raise"
       THEN /\ narration_out' = ExceptFallback
            /\ narrPc' = "returned_except"
       ELSE /\ narrPc' = "extract_json"
            /\ UNCHANGED narration_out
    /\ UNCHANGED <<timing_result, narration_payload, probe_out>>
    /\ UNCHANGED <<jobVars, syncVars, store_call, timeVars, asmVars, otherVars>>

\* line 295.
NarrExtractJson ==
    /\ narrPc = "extract_json"
    /\ narration_payload' = extract_json_array(llm_response.text)
    /\ narrPc' = "loads"
    /\ UNCHANGED <<timing_result, llm_response, narration_out, probe_out>>
    /\ UNCHANGED <<jobVars, syncVars, store_call, timeVars, asmVars, otherVars>>

\* lines 296-337: json.loads, the cleaning loop and the two handlers.
NarrLoads ==
    /\ narrPc = "loads"
    /\ LET value == JsonLoads(narration_payload) IN
       IF value = DecodeError
       THEN /\ narration_out' = DecodeFallback(timing_result)
            /\ narrPc' = "returned_decode"
       ELSE IF CleaningRaises(value)
       THEN /\ narration_out' = ExceptFallback
            /\ narrPc' = "returned_except"
       ELSE /\ narration_out' = CleanedSegments(value)
            /\ narrPc' = "returned_parsed"
    /\ UNCHANGED <<timing_result, llm_response, narration_payload, probe_out>>
    /\ UNCHANGED <<jobVars, syncVars, store_call, timeVars, asmVars, otherVars>>

\* A clip is probed.
GetAudioDuration(outcome) ==
    /\ probe_out = NoneInt
    /\ probe_out' = get_audio_duration(outcome)
    /\ UNCHANGED <<narrPc, timing_result, llm_response, narration_payload,
                   narration_out>>
    /\ UNCHANGED <<jobVars, syncVars, store_call, timeVars, asmVars, otherVars>>

NextNarration ==
    \/ \E outcome \in TimingOutcomes : ExtractAnimationTiming(outcome)
    \/ NarrTimingInfo
    \/ \E outcome \in NarrationOutcomes : NarrLlm(outcome)
    \/ NarrExtractJson
    \/ NarrLoads
    \/ \E outcome \in ProbeOutcomes : GetAudioDuration(outcome)

InitNarration ==
    JobInit /\ SyncIdle /\ store_call = NoCall /\ NarrInit /\ TimeIdle /\ AsmIdle /\ OtherIdle

\* The narration composer: extract_animation_timing, generate_timed_narration
\* on its result, and get_audio_duration, under every outcome of their
\* external calls.
SpecNarration == InitNarration /\ [][NextNarration]_vars

\* ======================================================= subtitle time codes
\* The formatters take a float number of seconds. A time of t milliseconds
\* reaches them as the binary64 number nearest to t/1000; the operators below
\* compute on integers exactly what the float operations of the source
\* compute on that number.
\* Largest time of the dense range of inputs, in milliseconds.
MaxTimeMs == 1100

\* Times handed to the formatters: every millisecond up to MaxTimeMs, the two
\* times of the specification's example (65.5 s and 70.25 s), and times
\* beyond a minute and beyond an hour.
TimeInputs == 0..MaxTimeMs \cup {4350, 65500, 70250, 3599999, 3661001}

RECURSIVE Pow2(_)
Pow2(e) == IF e = 0 THEN 1 ELSE 2 * Pow2(e - 1)

\* floor(log2(n)) for n >= 1.
RECURSIVE Log2Floor(_)
Log2Floor(n) == IF n < 2 THEN 0 ELSE 1 + Log2Floor(n \div 2)

\* The least e with t * 2^e >= 1000, for 1 <= t < 1000.
RECURSIVE ShiftToUnit(_, _)
ShiftToUnit(t, e) == IF t * Pow2(e) >= 1000 THEN e ELSE ShiftToUnit(t, e + 1)

\* The binary exponent of t/1000: 2^k <= t/1000 < 2^(k+1), for t >= 1.
BinaryExponent(t) ==
    IF t >= 1000 THEN Log2Floor(t \div 1000)
    ELSE IF t >= 1 THEN 0 - ShiftToUnit(t, 0)
    ELSE 0

\* 2^e modulo m, by squaring.
RECURSIVE Pow2Mod(_, _)
Pow2Mod(e, m) ==
    IF e = 0 THEN 1 % m
    ELSE IF e % 2 = 0 THEN (Pow2Mod(e \div 2, m) * Pow2Mod(e \div 2, m)) % m
    ELSE (2 * Pow2Mod(e - 1, m)) % m

\* Binary division of r by 1000 to the given number of fraction bits: the
\* remainder and the last quotient bit, read off r * 2^bits modulo 2000.
DivideBits(r, bits) ==
    LET low == (r * Pow2Mod(bits, 2000)) % 2000
    IN  <<low % 1000, low \div 1000>>

\* Rounding t/1000 to the nearest binary64 number (53 significant bits, ties
\* to even) gives t/1000 + d / (1000 * 2^s) with s = 52 - BinaryExponent(t);
\* this is d.
RoundingOffset(t) ==
    LET division == DivideBits(t % 1000, 52 - BinaryExponent(t))
        rem == division[1]
        bit == division[2]
    IN  IF 2 * rem > 1000 THEN 1000 - rem
        ELSE IF 2 * rem = 1000 /\ bit = 1 THEN 1000 - rem
        ELSE 0 - rem

\* int((seconds % 1) * 1000) of lines 819 and 828. seconds % 1 is exact; its
\* product by 1000 is r + d / 2^s with r = t % 1000, rounded to the nearest
\* binary64 number and then truncated: it is r unless the product lies more
\* than half a unit in the last place below r, and r - 1 then.
MillisOf(t) ==
    LET r == t % 1000
        d == RoundingOffset(t)
        j == Log2Floor(r)
        ulpExponent == j - BinaryExponent(t) - (IF r = Pow2(j) THEN 1 ELSE 0)
    IN  IF r = 0 THEN 0
        ELSE IF d >= 0 THEN r
        ELSE IF ulpExponent >= 0 /\ 2 * (0 - d) <= Pow2(ulpExponent) THEN r
        ELSE r - 1

\* The format specifications 02d and 03d.
Pad2(n) == IF n < 10 THEN "0" \o ToString(n) ELSE ToString(n)

Pad3(n) ==
    IF n < 10 THEN "00" \o ToString(n)
    ELSE IF n < 100 THEN "0" \o ToString(n)
    ELSE ToString(n)

\* lines 816-820 and 825-829: the four fields and the rendered text.
FormatTime(t, separator) ==
    LET hours == (t \div 1000) \div 3600
        minutes == ((t \div 1000) % 3600) \div 60
        secs == (t \div 1000) % 60
        millis == MillisOf(t)
    IN  [hours |-> hours, minutes |-> minutes, secs |-> secs,
         millis |-> millis,
         text |-> Pad2(hours) \o ":" \o Pad2(minutes) \o ":" \o Pad2(secs)
                    \o separator \o Pad3(millis)]

format_srt_time(t) == FormatTime(t, ",")

format_vtt_time(t) == FormatTime(t, ".")

NoTimeCode == [text |-> None]

TimeInit ==
    /\ time_in \in TimeInputs
    /\ srt_out = NoTimeCode
    /\ vtt_out = NoTimeCode

FormatSrtTime ==
    /\ srt_out = NoTimeCode
    /\ srt_out' = format_srt_time(time_in)
    /\ UNCHANGED <<time_in, vtt_out>>
    /\ UNCHANGED <<jobVars, syncVars, store_call, narrVars, asmVars, otherVars>>

FormatVttTime ==
    /\ vtt_out = NoTimeCode
    /\ vtt_out' = format_vtt_time(time_in)
    /\ UNCHANGED <<time_in, srt_out>>
    /\ UNCHANGED <<jobVars, syncVars, store_call, narrVars, asmVars, otherVars>>

NextTime ==
    \/ FormatSrtTime
    \/ FormatVttTime

InitTime ==
    JobInit /\ SyncIdle /\ store_call = NoCall /\ NarrIdle /\ TimeInit /\ AsmIdle /\ OtherIdle

\* The two subtitle time formatters on every time of TimeInputs.
SpecTime == InitTime /\ [][NextTime]_vars

\* =========================================================== audio assembler
\* combine_audio_segments on its own, on timelines of up to MaxAsmSegments
\* clips placed on the whole seconds 0..MaxAsmTime. A clip's path is its
\* position in the list it is handed over in.
MaxAsmSegments == 2

MaxAsmTime == 3

AsmClips ==
    {[start_time |-> a, end_time |-> b] : a \in 0..MaxAsmTime, b \in 0..MaxAsmTime}

AsmTimelines ==
    UNION {[1..n -> {c \in AsmClips : c.start_time < c.end_time}] :
              n \in 0..MaxAsmSegments}

WithPaths(timeline) ==
    [i \in 1..Len(timeline) |->
        [start_time |-> timeline[i].start_time,
         end_time |-> timeline[i].end_time,
         path |-> i]]

\* The files the assembler writes in temp_output.
OutputFile == [kind |-> "output", index |-> 0]

SequenceFile == [kind |-> "sequence", index |-> 0]

SilenceFile(i) == [kind |-> "silence", index |-> i]

ConcatFile == [kind |-> "concat", index |-> 0]

\* What a subprocess run can do: exit 0, exit non-zero, or fail to start.
RunOutcomes == {"ok", "nonzero", "raise"}

\* sorted(segments, key=start_time) of line 561: a stable insertion sort.
RECURSIVE InsertByStart(_, _)
InsertByStart(sorted, seg) ==
    IF sorted = <<>> THEN <<seg>>
    ELSE IF seg.start_time < Head(sorted).start_time THEN <<seg>> \o sorted
    ELSE <<Head(sorted)>> \o InsertByStart(Tail(sorted), seg)

RECURSIVE SortedByStart(_)
SortedByStart(segments) ==
    IF segments = <<>> THEN <<>>
    ELSE InsertByStart(SortedByStart(SubSeq(segments, 1, Len(segments) - 1)),
                       segments[Len(segments)])

\* lines 564-591: the silence and audio parts, from segment i on.
RECURSIVE PlanParts(_, _, _)
PlanParts(sorted_segments, i, current_time) ==
    IF i > Len(sorted_segments) THEN <<>>
    ELSE LET segment == sorted_segments[i]
             start_time == segment.start_time
             silence == [type |-> "silence",
                         duration |-> start_time - current_time,
                         start |-> current_time,
                         end |-> start_time]
             audio == [type |-> "audio",
                       path |-> segment.path,
                       start |-> start_time,
                       end |-> segment.end_time]
         IN  (IF start_time > current_time THEN <<silence>> ELSE <<>>)
                \o <<audio>>
                \o PlanParts(sorted_segments, i + 1, segment.end_time)

SilenceIndexes(parts) == {i \in 1..Len(parts) : parts[i].type = "silence"}

AsmInit ==
    /\ asmPc = "start"
    /\ asm_segments \in {WithPaths(t) : t \in AsmTimelines}
    /\ sequence_parts = <<>>
    /\ asm_files = {}
    /\ asm_started = <<>>

\* lines 532-539 and 551-591: the empty list is refused; otherwise the
\* primary strategy starts and plans its parts.
CombineAudioSegments ==
    /\ asmPc = "start"
    /\ IF Len(asm_segments) = 0
       THEN /\ asmPc' = "raised"
            /\ UNCHANGED <<sequence_parts, asm_started>>
       ELSE /\ sequence_parts' = PlanParts(SortedByStart(asm_segments), 1, 0)
            /\ asm_started' = <<"primary">>
            /\ asmPc' = "sequence"
    /\ UNCHANGED <<asm_segments, asm_files>>
    /\ UNCHANGED <<jobVars, syncVars, store_call, narrVars, timeVars, otherVars>>

\* lines 594-622: the sequence file and the silence files. raiseAt is 0 when
\* open() raises, the index of a silence part whose subprocess fails to
\* start, or Len + 1 when nothing raises; a silence run that exits non-zero
\* leaves no file and is passed over.
WriteSequenceFile(raiseAt, created) ==
    /\ asmPc = "sequence"
    /\ raiseAt \in {0, Len(sequence_parts) + 1} \cup SilenceIndexes(sequence_parts)
    /\ created \subseteq {i \in SilenceIndexes(sequence_parts) : i < raiseAt}
    /\ asm_files' = asm_files
                      \cup (IF raiseAt = 0 THEN {} ELSE {SequenceFile})
                      \cup {SilenceFile(i) : i \in created}
    /\ asmPc' = IF raiseAt > Len(sequence_parts) THEN "concat" ELSE "second"
    /\ UNCHANGED <<asm_segments, sequence_parts, asm_started>>
    /\ UNCHANGED <<jobVars, syncVars, store_call, narrVars, timeVars, otherVars>>

\* The concat run of the primary strategy going on to the second strategy
\* whatever the run did.
ConcatSequenceFallsThrough(outcome) ==
    /\ asmPc = "concat"
    /\ asm_files' = IF outcome = "ok" THEN {OutputFile} ELSE asm_files
    /\ asmPc' = "second"
    /\ UNCHANGED <<asm_segments, sequence_parts, asm_started>>
    /\ UNCHANGED <<jobVars, syncVars, store_call, narrVars, timeVars, otherVars>>

\* lines 624-655: the concat run of the primary strategy; its temporary
\* files are removed only when it has succeeded.
ConcatSequence(outcome) ==
    /\ asmPc = "concat"
    /\ IF outcome = "ok"
       THEN /\ asm_files' = {OutputFile}
            /\ asmPc' = "returned"
       ELSE /\ asm_files' = asm_files
            /\ asmPc' = "second"
    /\ UNCHANGED <<asm_segments, sequence_parts, asm_started>>
    /\ UNCHANGED <<jobVars, syncVars, store_call, narrVars, timeVars, otherVars>>

\* lines 657-659 and 662-718: the second strategy, one filter graph. A run
\* that cannot start goes to the except clause of line 757.
ConcatenateAudioSegmentsSimple(outcome) ==
    /\ asmPc = "second"
    /\ asm_started' = Append(asm_started, "second")
    /\ asm_files' = IF outcome = "ok" THEN asm_files \cup {OutputFile}
                    ELSE asm_files
    /\ asmPc' = CASE outcome = "ok" -> "returned"
                  [] outcome = "nonzero" -> "third"
                  [] outcome = "raise" -> "raised"
    /\ UNCHANGED <<asm_segments, sequence_parts>>
    /\ UNCHANGED <<jobVars, syncVars, store_call, narrVars, timeVars, otherVars>>

\* lines 719-755: naive concatenation. Its return code is not read: the
\* list file is removed and the function returns whatever the run did. A run
\* that cannot start leaves the list file and raises.
NaiveConcatenation(outcome) ==
    /\ asmPc = "third"
    /\ asm_started' = Append(asm_started, "third")
    /\ asm_files' = CASE outcome = "ok" -> asm_files \cup {OutputFile}
                      [] outcome = "nonzero" -> asm_files
                      [] outcome = "raise" -> asm_files \cup {ConcatFile}
    /\ asmPc' = IF outcome = "raise" THEN "raised" ELSE "returned"
    /\ UNCHANGED <<asm_segments, sequence_parts>>
    /\ UNCHANGED <<jobVars, syncVars, store_call, narrVars, timeVars, otherVars>>

NextAssemble ==
    \/ CombineAudioSegments
    \/ \E raiseAt \in 0..(2 * MaxAsmSegments + 1) :
          \E created \in SUBSET (1..(2 * MaxAsmSegments)) :
              WriteSequenceFile(raiseAt, created)
    \/ \E outcome \in RunOutcomes : ConcatSequence(outcome)
    \/ \E outcome \in RunOutcomes : ConcatenateAudioSegmentsSimple(outcome)
    \/ \E outcome \in RunOutcomes : NaiveConcatenation(outcome)

InitAssemble ==
    JobInit /\ SyncIdle /\ store_call = NoCall /\ NarrIdle /\ TimeIdle /\ AsmInit /\ OtherIdle

\* combine_audio_segments on every timeline of AsmTimelines, every subprocess
\* run free to succeed, to exit non-zero or to fail to start.
SpecAssemble == InitAssemble /\ [][NextAssemble]_vars

\* ====================================================== script timing patcher
\* inject_wait_times and validate_modified_script of
\* services/manim_script_modifier.py, on scripts that are Python texts.
\* Positions of the line breaks of a text.
NewlinesOf(t) == {i \in 1..Len(t) : SubSeq(t, i, i) = "\n"}

\* str.split('\n'): the text up to its first line break, then the lines of
\* the rest.
RECURSIVE SplitLines(_)
SplitLines(t) ==
    LET breaks == NewlinesOf(t)
        first == CHOOSE b \in breaks : \A c \in breaks : b <= c
    IN  IF breaks = {} THEN <<t>>
        ELSE <<SubSeq(t, 1, first - 1)>>
                \o SplitLines(SubSeq(t, first + 1, Len(t)))

\* Joining that ends every line with a line break.
RECURSIVE JoinLinesTerminated(_)
JoinLinesTerminated(lines) ==
    IF Len(lines) = 0 THEN ""
    ELSE lines[1] \o "\n" \o JoinLinesTerminated(Tail(lines))

\* '\n'.join(lines).
RECURSIVE JoinLines(_)
JoinLines(lines) ==
    IF Len(lines) = 0 THEN ""
    ELSE IF Len(lines) = 1 THEN lines[1]
    ELSE lines[1] \o "\n" \o JoinLines(Tail(lines))

\* The characters i..j of the line are all whitespace (none when j < i).
BlankBetween(line, i, j) ==
    \A k \in i..j : SubSeq(line, k, k) \in Whitespace

HasAt(line, i, word) ==
    i + Len(word) - 1 <= Len(line) /\ SubSeq(line, i, i + Len(word) - 1) = word

\* Whether the line has, from position i on, any number of blanks and then
\* the word.
BlanksThen(line, i, word) ==
    \E k \in i..Len(line) : BlankBetween(line, i, k - 1) /\ HasAt(line, k, word)

\* re.search(r'def\s+construct\s*\(', line), line 112.
IsConstructDef(line) ==
    \E i \in 1..Len(line) :
        /\ HasAt(line, i, "def")
        /\ \E j \in (i + 4)..Len(line) :
              /\ BlankBetween(line, i + 3, j - 1)
              /\ HasAt(line, j, "construct")
              /\ BlanksThen(line, j + 9, "(")

\* re.search(r'self\.(play|wait)\s*\(', line), line 211.
IsPlayOrWait(line) ==
    \E i \in 1..Len(line) :
        /\ HasAt(line, i, "self.play") \/ HasAt(line, i, "self.wait")
        /\ BlanksThen(line, i + 9, "(")

\* len(line) - len(line.lstrip()).
IndentOf(line) == Len(line) - Len(LStrip(line))

\* lines 110-118: the 1-based index of the first line that defines
\* construct, 0 when there is none.
ConstructStart(lines) ==
    LET hits == {i \in 1..Len(lines) : IsConstructDef(lines[i])}
    IN  IF hits = {} THEN 0 ELSE CHOOSE i \in hits : \A h \in hits : i <= h

\* lines 121-129: the indentation of the first line after the definition
\* that is neither blank nor a comment; 8 when there is none.
BaseIndent(lines, construct_start) ==
    LET code == {i \in (construct_start + 1)..Len(lines) :
                    /\ Strip(lines[i]) # ""
                    /\ ~StartsWith(Strip(lines[i]), "#")}
    IN  IF code = {} THEN 8
        ELSE IndentOf(lines[CHOOSE i \in code : \A c \in code : i <= c])

\* A string of n spaces.
RECURSIVE Spaces(_)
Spaces(n) == IF n = 0 THEN "" ELSE " " \o Spaces(n - 1)

\* The text Python gives a wait_duration of ms milliseconds, a float
\* rounded to two places: 1.0, 0.5, 1.25.
FloatText(ms) ==
    LET hundredths == (ms % 1000) \div 10
    IN  ToString(ms \div 1000) \o "."
           \o (IF hundredths % 10 = 0 THEN ToString(hundredths \div 10)
               ELSE ToString(hundredths \div 10) \o ToString(hundredths % 10))

\* lines 131 and 163.
WaitLine(base_indent, wait_duration) ==
    Spaces(base_indent) \o "self.wait(" \o FloatText(wait_duration)
       \o ")  # Audio sync adjustment"

\* _find_segment_end, lines 201-212: the indexes of the play and wait calls
\* after the definition, up to the next line that starts a definition.
PlayWaitLines(lines, construct_start) ==
    LET later == (construct_start + 1)..Len(lines)
        defs == {i \in later : StartsWith(Strip(lines[i]), "def ")}
        stop == IF defs = {} THEN Len(lines) + 1
                ELSE CHOOSE i \in defs : \A d \in defs : i <= d
    IN  {i \in later : i < stop /\ IsPlayOrWait(lines[i])}

\* The k-th smallest member of a set of numbers, k from 0.
NthOf(set, k) == CHOOSE x \in set : Cardinality({y \in set : y < x}) = k

\* The result of _find_segment_end: a line index, 0 for None, or a raise
\* (the division by total_segments = 0 at line 220).
FindSegmentEnd(lines, construct_start, segment_index, total_segments) ==
    LET play_wait_lines == PlayWaitLines(lines, construct_start)
        count == Cardinality(play_wait_lines)
        calls_per_segment == Max(1, count \div total_segments)
        segment_end_index ==
            IF segment_index = total_segments - 1 THEN count - 1
            ELSE Min((segment_index + 1) * calls_per_segment - 1, count - 1)
    IN  IF count = 0 THEN [raised |-> FALSE, line |-> 0]
        ELSE IF total_segments = 0 THEN [raised |-> TRUE, line |-> 0]
        ELSE [raised |-> FALSE,
              line |-> NthOf(play_wait_lines, segment_end_index)]

\* list.insert(after + 1, text) with 0-based after + 1 = 1-based after.
InsertAfter(lines, after, text) ==
    SubSeq(lines, 1, after) \o <<text>> \o SubSeq(lines, after + 1, Len(lines))

\* line 137: the adjustment kept for a segment index is the last one given.
AdjustmentFor(adjs, seg_idx) ==
    LET at == {i \in 1..Len(adjs) :
                  adjs[i].segment_index = seg_idx}
    IN  adjs[CHOOSE i \in at : \A a \in at : i >= a]

\* lines 143-174: the insertions, by descending segment index; keys holds
\* the indexes still to do. Every search runs on the lines as they are then,
\* with the wait calls already inserted.
RECURSIVE InsertWaits(_, _, _, _, _, _)
InsertWaits(lines, keys, adjs, construct_start, base_indent, total) ==
    IF keys = {} THEN [raised |-> FALSE, lines |-> lines]
    ELSE LET seg_idx == CHOOSE k \in keys : \A o \in keys : k >= o
             found == FindSegmentEnd(lines, construct_start, seg_idx, total)
             wait_line ==
                 WaitLine(base_indent,
                          AdjustmentFor(adjs, seg_idx).wait_duration)
         IN  IF found.raised THEN [raised |-> TRUE, lines |-> lines]
             ELSE InsertWaits(
                      IF found.line = 0 THEN lines
                      ELSE InsertAfter(lines, found.line, wait_line),
                      keys \ {seg_idx}, adjs, construct_start,
                      base_indent, total)

\* inject_wait_times, lines 81-179: adjs is its adjustments argument, total
\* is len(timing_segments).
inject_wait_times(script, adjs, total) ==
    LET lines == SplitLines(script)
        construct_start == ConstructStart(lines)
        keys == {adjs[i].segment_index : i \in 1..Len(adjs)}
        done == InsertWaits(lines, keys, adjs, construct_start,
                            BaseIndent(lines, construct_start), total)
    IN  IF Len(adjs) = 0 THEN [raised |-> FALSE, script |-> script]
        ELSE IF construct_start = 0 THEN [raised |-> FALSE, script |-> script]
        ELSE IF done.raised THEN [raised |-> TRUE, script |-> None]
        ELSE [raised |-> FALSE, script |-> JoinLines(done.lines)]

\* ------------------------------------------------- validate_modified_script
\* compile(script, '<string>', 'exec') accepts a script of the model when its
\* brackets balance, the items inside a bracket are separated by commas, and
\* its indentation follows its block headers. The statements of the scripts
\* are themselves well formed.
\* The line without its comment and without the blanks around it.
CodeOf(line) ==
    LET marks == {i \in 1..Len(line) : SubSeq(line, i, i) = "#"}
        cut == IF marks = {} THEN Len(line) + 1
               ELSE CHOOSE i \in marks : \A m \in marks : i <= m
    IN  Strip(SubSeq(line, 1, cut - 1))

CountOf(code, c) == Cardinality({i \in 1..Len(code) : SubSeq(code, i, i) = c})

\* The code ends an item: what follows inside a bracket needs a comma first.
EndsItem(code) ==
    ~EndsWith(code, ",") /\ ~EndsWith(code, "(")

\* The indentation stack after a dedent to the given column.
RECURSIVE PopTo(_, _)
PopTo(stack, indent) ==
    IF Len(stack) > 1 /\ stack[Len(stack)] > indent
    THEN PopTo(SubSeq(stack, 1, Len(stack) - 1), indent)
    ELSE stack

\* The parser state: open brackets, whether an item has just ended inside a
\* bracket, the indentation stack, and whether a block header awaits its body.
ParseStart ==
    [ok |-> TRUE, depth |-> 0, item |-> FALSE, stack |-> <<0>>, header |-> FALSE]

ParseLine(st, line) ==
    LET code == CodeOf(line)
        indent == IndentOf(line)
        depth == st.depth + CountOf(code, "(") - CountOf(code, ")")
        top == st.stack[Len(st.stack)]
        popped == PopTo(st.stack, indent)
        stack == IF st.header \/ indent > top THEN Append(st.stack, indent)
                 ELSE popped
        indented ==
            IF st.header THEN indent > top
            ELSE indent <= top /\ popped[Len(popped)] = indent
    IN  IF ~st.ok \/ code = "" THEN st
        ELSE IF st.depth > 0
        THEN [st EXCEPT !.ok = depth >= 0
                                /\ (st.item => StartsWith(code, ")")),
                        !.depth = depth,
                        !.item = EndsItem(code)]
        ELSE [ok |-> indented /\ depth >= 0,
              depth |-> depth,
              item |-> EndsItem(code),
              stack |-> stack,
              header |-> depth = 0 /\ EndsWith(code, ":")]

RECURSIVE ParseFrom(_, _, _)
ParseFrom(st, lines, i) ==
    IF i > Len(lines) THEN st
    ELSE ParseFrom(ParseLine(st, lines[i]), lines, i + 1)

Compiles(script) ==
    LET st == ParseFrom(ParseStart, SplitLines(script), 1)
    IN  st.ok /\ st.depth = 0 /\ ~st.header

\* validate_modified_script, lines 280-300: (is_valid, error_message).
validate_modified_script(script) ==
    IF Compiles(script) THEN [ok |-> TRUE, error |-> None]
    ELSE [ok |-> FALSE, error |-> "Syntax error"]

\* ------------------------------------------------------------ the scripts
\* The script with two calls, one per line.
ScriptSimple ==
    "from manim import *\n"
       \o "\n"
       \o "class S(Scene):\n"
       \o "    def construct(self):\n"
       \o "        self.play(Write(t))\n"
       \o "        self.wait(1)"

\* The script with an assignment and four calls.
ScriptFour ==
    "from manim import *\n"
       \o "\n"
       \o "class S(Scene):\n"
       \o "    def construct(self):\n"
       \o "        t = Text('a')\n"
       \o "        self.play(Write(t))\n"
       \o "        self.play(FadeOut(t))\n"
       \o "        self.wait(1)\n"
       \o "        self.play(Write(t))"

\* The script with a play call written over three lines.
ScriptMultiLine ==
    "from manim import *\n"
       \o "\n"
       \o "class S(Scene):\n"
       \o "    def construct(self):\n"
       \o "        self.play(\n"
       \o "            Write(t),\n"
       \o "        )\n"
       \o "        self.wait(1)"

\* The script with calls inside a loop, then one after it.
ScriptLoop ==
    "from manim import *\n"
       \o "\n"
       \o "class S(Scene):\n"
       \o "    def construct(self):\n"
       \o "        for i in range(2):\n"
       \o "            self.play(Write(t))\n"
       \o "            self.wait(1)\n"
       \o "        self.play(FadeOut(t))"

\* The script with a comment and a blank line before the first statement.
ScriptComment ==
    "from manim import *\n"
       \o "\n"
       \o "class S(Scene):\n"
       \o "    def construct(self):\n"
       \o "        # intro\n"
       \o "\n"
       \o "        t = Text('a')\n"
       \o "        self.play(Write(t))"

\* The script with a second method after construct.
ScriptHelper ==
    "from manim import *\n"
       \o "\n"
       \o "class S(Scene):\n"
       \o "    def construct(self):\n"
       \o "        self.play(Write(t))\n"
       \o "\n"
       \o "    def helper(self):\n"
       \o "        self.wait(2)"

\* The script with a construct method without play or wait.
ScriptNoCalls ==
    "from manim import *\n"
       \o "\n"
       \o "class S(Scene):\n"
       \o "    def construct(self):\n"
       \o "        t = Text('a')\n"
       \o "        self.add(t)\n"

\* The script with no construct method.
ScriptNoConstruct ==
    "from manim import *\n"
       \o "\n"
       \o "class S(Scene):\n"
       \o "    def build(self):\n"
       \o "        self.play(Write(t))"

\* ScriptSimple ending in a line break.
ScriptTrailing ==
    "from manim import *\n"
       \o "\n"
       \o "class S(Scene):\n"
       \o "    def construct(self):\n"
       \o "        self.play(Write(t))\n"
       \o "        self.wait(1)\n"

\* The scripts in which inject_wait_times finds nothing to patch.
UnpatchableScripts == {"", ScriptNoCalls, ScriptNoConstruct}

PatchScripts ==
    {ScriptSimple, ScriptFour, ScriptMultiLine, ScriptLoop, ScriptComment,
     ScriptHelper, ScriptTrailing} \cup UnpatchableScripts

\* Longest adjustment list drawn as input.
MaxAdjustments == 2

\* Adjustments for the segments 0..MaxAdjustments, of 0.5 s and 1.25 s.
PatchAdjustments ==
    [segment_index : 0..MaxAdjustments, wait_duration : {500, 1250}]

AdjustmentLists ==
    UNION {[1..n -> PatchAdjustments] : n \in 0..MaxAdjustments}

\* validate_modified_script has not been run.
NoValidation == [ok |-> FALSE, error |-> None]

PatchInit ==
    /\ patchPc = "start"
    /\ patch_script \in PatchScripts
    /\ patch_adjustments \in AdjustmentLists
    /\ patch_total \in 0..(MaxAdjustments + 1)
    /\ patch_out = ""
    /\ patch_valid = NoValidation

\* The patch operation: inject_wait_times returns a script or raises.
InjectWaitTimes ==
    /\ patchPc = "start"
    /\ LET result == inject_wait_times(patch_script, patch_adjustments,
                                       patch_total)
       IN  /\ patchPc' = IF result.raised THEN "raised" ELSE "returned"
           /\ patch_out' = result.script
    /\ UNCHANGED <<patch_script, patch_adjustments, patch_total, patch_valid>>
    /\ UNCHANGED <<jobVars, syncVars, store_call, narrVars, timeVars, asmVars,
                   apiVars, lockVars, dbVars>>

\* validate_modified_script on the script the patch operation returned.
ValidateModifiedScript ==
    /\ patchPc = "returned"
    /\ patch_valid' = validate_modified_script(patch_out)
    /\ patchPc' = "validated"
    /\ UNCHANGED <<patch_script, patch_adjustments, patch_total, patch_out>>
    /\ UNCHANGED <<jobVars, syncVars, store_call, narrVars, timeVars, asmVars,
                   apiVars, lockVars, dbVars>>

NextPatch ==
    \/ InjectWaitTimes
    \/ ValidateModifiedScript

InitPatch ==
    /\ JobInit /\ SyncIdle /\ store_call = NoCall
    /\ NarrIdle /\ TimeIdle /\ AsmIdle
    /\ PatchInit /\ ApiIdle /\ LockIdle /\ DbIdle

\* The patcher on every script of PatchScripts and every adjustment list.
SpecPatch == InitPatch /\ [][NextPatch]_vars

\* ===================================================== timeline reconciler
\* The planned slot of a narration segment that has an end_time.
SlotOf(seg) == seg.end_time - seg.start_time

\* The silence-append step succeeded if it was attempted.
PadSucceeded(a) == a.pad_attempted => a.path = "padded"

ProcessedSegments == 1..Len(audio_segments)

\* C1: the timeline handed to the assembler has one interval per valid
\* segment, starts at 0, has end[i] = start[i] + duration[i] and
\* start[i+1] = end[i]; no two intervals overlap and there is no gap.
C1_SequentialTimeline ==
    handed # <<>> =>
        /\ Len(handed) = Len(valid_segments)
        /\ handed[1].start_time = 0
        /\ \A i \in 1..Len(handed) :
              handed[i].end_time = handed[i].start_time + handed[i].duration
        /\ \A i \in 1..(Len(handed) - 1) :
              handed[i + 1].start_time = handed[i].end_time
        /\ \A i, k \in 1..Len(handed) :
              i < k => handed[i].end_time <= handed[k].start_time

\* C1 witness: a timeline of two segments was handed over whose second
\* segment does not start where it was planned to start.
C1_Witness ==
    /\ Len(handed) >= 2
    /\ handed[2].start_time # handed[2].planned_start
    /\ handed[2].start_time = handed[1].end_time

\* C2: Pass A never shortens narration: the recorded duration is at least the
\* measured duration of the clip, and when the measured duration exceeds the
\* planned duration the recorded duration is the measured duration.
C2_NeverShortens ==
    \A i \in ProcessedSegments :
        LET a == audio_segments[i]
            seg == valid_segments[i]
        IN  /\ a.duration >= a.measured
            /\ (seg.end_time # Absent /\ a.measured > SlotOf(seg))
                  => a.duration = a.measured

\* C2 witness: planned 5.0 s, measured 7.0 s, recorded 7.0 s.
C2_Witness ==
    \E i \in ProcessedSegments :
        /\ valid_segments[i].end_time # Absent
        /\ SlotOf(valid_segments[i]) = 5000
        /\ audio_segments[i].measured = 7000
        /\ audio_segments[i].duration = 7000

\* C3 as stated: with padding succeeding whenever attempted, the recorded
\* duration equals max(planned_duration, measured_duration) for every pair.
C3_DurationIsMax ==
    \A i \in ProcessedSegments :
        LET a == audio_segments[i]
            seg == valid_segments[i]
        IN  (seg.end_time # Absent /\ PadSucceeded(a))
               => a.duration = Max(SlotOf(seg), a.measured)

\* C3 amended: with padding succeeding whenever attempted, the recorded
\* duration is the planned duration when the measured duration is positive
\* and below planned - 100 ms, the measured duration when it is positive and
\* at least planned - 100 ms, and max(planned, 1 s) when the measured duration
\* is not positive; so for a positive measured duration it is
\* max(planned, measured) except inside the tolerance band
\* planned - 100 ms <= measured < planned, where it is the measured duration.
C3_DurationWithTolerance ==
    \A i \in ProcessedSegments :
        LET a == audio_segments[i]
            seg == valid_segments[i]
            planned == SlotOf(seg)
            in_band == planned - 100 <= a.measured /\ a.measured < planned
        IN  (seg.end_time # Absent /\ PadSucceeded(a)) =>
               /\ a.measured <= 0 => a.duration = Max(planned, 1000)
               /\ (a.measured > 0 /\ in_band) => a.duration = a.measured
               /\ (a.measured > 0 /\ ~in_band)
                     => a.duration = Max(planned, a.measured)

\* C3 witness: planned 3.0 s, measured 2.95 s: no padding, recorded 2.95 s.
C3_Witness ==
    \E i \in ProcessedSegments :
        /\ valid_segments[i].end_time # Absent
        /\ SlotOf(valid_segments[i]) = 3000
        /\ audio_segments[i].measured = 2950
        /\ audio_segments[i].duration = 2950
        /\ ~audio_segments[i].pad_attempted

\* C4 as stated: when measured < planned - 100 ms and the silence-append step
\* succeeds, the clip gets a silence tail of planned - measured and the
\* recorded duration is the planned duration; when measured >= planned - 100 ms
\* no silence is appended and the recorded duration stays the measured one.
C4_PaddingRule ==
    \A i \in ProcessedSegments :
        LET a == audio_segments[i]
            seg == valid_segments[i]
            planned == SlotOf(seg)
        IN  seg.end_time # Absent =>
               /\ (a.measured < planned - 100 /\ PadSucceeded(a)) =>
                     /\ a.silence = planned - a.measured
                     /\ a.duration = planned
               /\ a.measured >= planned - 100 =>
                     /\ a.silence = 0
                     /\ a.duration = a.measured

\* C4 amended: the padding rule as stated holds for every clip whose measured
\* duration is positive; a clip measured as 0 or less is never padded and is
\* recorded with max(planned_duration, 1 s).
C4_PaddingRulePositive ==
    \A i \in ProcessedSegments :
        LET a == audio_segments[i]
            seg == valid_segments[i]
            planned == SlotOf(seg)
        IN  seg.end_time # Absent =>
               /\ (a.measured > 0 /\ a.measured < planned - 100
                                  /\ PadSucceeded(a)) =>
                     /\ a.path = "padded"
                     /\ a.silence = planned - a.measured
                     /\ a.duration = planned
               /\ (a.measured > 0 /\ a.measured >= planned - 100) =>
                     /\ a.path = "segment"
                     /\ a.silence = 0
                     /\ a.duration = a.measured
               /\ a.measured <= 0 =>
                     /\ a.path = "segment"
                     /\ a.silence = 0
                     /\ a.duration = Max(planned, 1000)

\* C4 witness: planned 8.0 s, measured 5.0 s: a 3.0 s tail, recorded 8.0 s.
C4_Witness ==
    \E i \in ProcessedSegments :
        /\ valid_segments[i].end_time # Absent
        /\ SlotOf(valid_segments[i]) = 8000
        /\ audio_segments[i].measured = 5000
        /\ audio_segments[i].silence = 3000
        /\ audio_segments[i].duration = 8000

\* C5: for every segment the planned_start and planned_end of the returned
\* metadata are the start_time and end_time of the input narration segment,
\* whatever the measured duration.
C5_PlannedTimesRetained ==
    \A i \in 1..Len(segment_metadata) :
        valid_segments[i].end_time # Absent =>
            /\ segment_metadata[i].planned_start = valid_segments[i].start_time
            /\ segment_metadata[i].planned_end = valid_segments[i].end_time

\* The end-to-end scenario ran: measured durations 2.5, 6.0, 4.0 s, padding
\* succeeded, and the adjustments were computed.
ScenarioRan ==
    /\ narration_segments = Scenario
    /\ syncPc = "adjusted"
    /\ [i \in 1..3 |-> audio_segments[i].measured] = <<2500, 6000, 4000>>
    /\ \A i \in 1..3 : PadSucceeded(audio_segments[i])

\* C6: in the end-to-end scenario the reconciled intervals are [0,3), [3,9),
\* [9,16), the track is 16.0 s long, and calculate_wait_adjustments records
\* exactly one adjustment, for segment 1, with wait_duration 1.0.
C6_EndToEndScenario ==
    ScenarioRan =>
        /\ [i \in 1..3 |-> <<handed[i].start_time, handed[i].end_time>>]
              = << <<0, 3000>>, <<3000, 9000>>, <<9000, 16000>> >>
        /\ [i \in 1..3 |-> <<segment_metadata[i].actual_start,
                             segment_metadata[i].actual_end>>]
              = << <<0, 3000>>, <<3000, 9000>>, <<9000, 16000>> >>
        /\ handed[Len(handed)].end_time = 16000
        /\ Len(adjustments) = 1
        /\ adjustments[1].segment_index = 1
        /\ adjustments[1].wait_duration = 1000

\* C6 witness: the scenario ran to the end.
C6_Witness == ScenarioRan /\ Len(handed) = 3

\* ======================================================== job supervisor
\* C7: once a job's status in the status store is completed or failed, no
\* later step of its task and no later status-store operation changes the
\* status of that record to any other value (the retention sweep may remove
\* the record, it does not change its status).
C7_TerminalIsFinal ==
    [][\A j \in JobIds :
          statuses[j].status \in Terminal
              => statuses'[j].status \in {statuses[j].status, "absent"}]_vars

C9_EndedTaskReachedTerminal ==
    \A j \in JobIds : pc[j] = "done" => calls[j].reached_terminal

\* ========================================================== status query
\* C10: a status query for an id without a live record answers completed if
\* and only if <id>.mp4 exists in storage and not-found otherwise; it never
\* answers pending, processing or failed for such an id.
C10_FallbackOnArtifact ==
    (response # NoResponse /\ ~response.live) =>
        /\ response.status = "completed" <=> response.artifact
        /\ response.artifact => response.code = 200
        /\ ~response.artifact => response.code = 404 /\ response.status = None
        /\ response.status \notin {"pending", "processing", "failed"}

\* C10 witness: a query without live record answered completed from the
\* artifact of a job whose record the sweep removed.
C10_Witness ==
    /\ response # NoResponse
    /\ ~response.live
    /\ response.artifact
    /\ response.status = "completed"
    /\ response.code = 200

\* =========================================================== status store
StoreFields ==
    {"status", "step", "step_message", "error", "file_path", "duration",
     "subtitle_path"}

\* The caller passed a value other than None for the field.
Supplied(a, f) == a[f] # NoArgs[f]

\* C11: an update of an existing record sets each supplied field to the
\* supplied value, refreshes updated_at and leaves every other field of the
\* record, and every other record, unchanged; an update that supplies only
\* step and step_message does not alter status, error, file_path, duration
\* or subtitle_path.
C11_UpdateFrame ==
    [][\A id \in JobIds, a \in StoreArgs :
          (StoreUpdate(id, a) /\ statuses[id] # NoEntry) =>
              /\ statuses'[id] # NoEntry
              /\ \A f \in StoreFields :
                    statuses'[id][f] =
                        IF Supplied(a, f) THEN a[f] ELSE statuses[id][f]
              /\ ~statuses'[id].stale
              /\ \A k \in JobIds \ {id} : statuses'[k] = statuses[k]
              /\ (\A f \in StoreFields :
                     Supplied(a, f) <=> f \in {"step", "step_message"}) =>
                    \A f \in {"status", "error", "file_path", "duration",
                               "subtitle_path"} :
                        statuses'[id][f] = statuses[id][f]]_vars

\* C11 witness: an update with only step and step_message reached a record
\* that was still pending: step and message are the supplied ones, the status
\* is still pending and the optional fields are still None.
C11_Witness ==
    \E id \in JobIds :
        /\ store_call = [op |-> "update", id |-> id, found |-> TRUE]
        /\ statuses[id] # NoEntry
        /\ statuses[id].status = "pending"
        /\ statuses[id].step = 2
        /\ statuses[id].step_message = "Rendering animation"
        /\ statuses[id].error = None
        /\ statuses[id].file_path = None

\* C12: an update for an id that has no record creates the record with the
\* supplied values, so every update leaves a record holding them.
C12_UpdateIsUpsert ==
    [][\A id \in JobIds, a \in StoreArgs :
          StoreUpdate(id, a) =>
              /\ statuses'[id] # NoEntry
              /\ \A f \in StoreFields :
                    Supplied(a, f) => statuses'[id][f] = a[f]]_vars

\* ================================================================ synthesis
\* C13: the text given to the speech provider, by create_synchronized_audio
\* and by generate_tts_audio, is never shorter than 3 characters.
C13_ProviderInputAtLeast3 ==
    tts_input # None => Len(tts_input) >= 3

\* C13 witness: a narration segment whose stripped text has two characters
\* was synthesized as the placeholder phrase.
C13_Witness ==
    /\ audio_segments # <<>>
    /\ Len(Strip(valid_segments[Len(audio_segments)].text)) < 3
    /\ tts_input = "Pause."

\* ====================================================== narration composer
\* generate_timed_narration has returned a list.
NarrationReturned ==
    narrPc \in {"returned_parsed", "returned_decode", "returned_except"}

\* C14: generate_timed_narration returns at least one narration segment for
\* every outcome of the LLM call.
C14_AtLeastOneSegment ==
    NarrationReturned => Len(narration_out) >= 1

\* C15: every returned narration segment has end_time > start_time and a text
\* of at least 3 characters, on the parsed path and on both fallback paths,
\* for any number of timing segments.
C15_SegmentsWellFormed ==
    NarrationReturned =>
        \A i \in 1..Len(narration_out) :
            /\ narration_out[i].end_time > narration_out[i].start_time
            /\ Len(narration_out[i].text) >= 3

\* C16: the returned list has one narration segment per timing segment.
C16_OnePerTimingSegment ==
    NarrationReturned =>
        /\ timing_result.kind = "array"
        /\ Len(narration_out) = Len(timing_result.items)

\* C17: a response that wraps a JSON array in a code fence, with or without
\* the json tag, or that puts prose before it, is parsed to the same value
\* as the bare array; and the bracket scan is applied only to a fence-stripped
\* payload that does not start with "[" or "{".
C17_WrappedParsesAsBare ==
    (narrPc \in {"loads"} \cup {"returned_parsed", "returned_decode",
                                "returned_except"}
        /\ llm_response.kind = "text") =>
        /\ (llm_response.wrap \in {"fence", "fence_json", "prose"}
              /\ JsonLoads(llm_response.payload).kind = "array") =>
                JsonLoads(narration_payload) = JsonLoads(llm_response.payload)
        /\ narration_payload # FenceStripped(llm_response.text) =>
                NeedsBracketScan(FenceStripped(llm_response.text))

\* C18: none of the wrappers raises to its caller.
C18_WrappersNeverRaise ==
    narrPc # "raised"

\* ====================================================== subtitle time codes
\* C19: for a time of t whole milliseconds both formatters render fields with
\* 0 <= MM < 60, 0 <= SS < 60, 0 <= mmm < 1000 whose value
\* HH*3600000 + MM*60000 + SS*1000 + mmm is t, and they differ only in the
\* separator before mmm; 65.5 s gives 00:01:05,500 and 00:01:05.500, 70.25 s
\* gives 00:01:10,250 and 00:01:10.250.
C19_ExactToMillisecond ==
    /\ \A out \in {srt_out, vtt_out} :
          out # NoTimeCode =>
              /\ out.minutes \in 0..59
              /\ out.secs \in 0..59
              /\ out.millis \in 0..999
              /\ out.hours * 3600000 + out.minutes * 60000
                    + out.secs * 1000 + out.millis = time_in
    /\ (srt_out # NoTimeCode /\ vtt_out # NoTimeCode) =>
          /\ SubSeq(srt_out.text, 1, 8) = SubSeq(vtt_out.text, 1, 8)
          /\ SubSeq(srt_out.text, 9, 9) = ","
          /\ SubSeq(vtt_out.text, 9, 9) = "."
          /\ SubSeq(srt_out.text, 10, 12) = SubSeq(vtt_out.text, 10, 12)
    /\ (time_in = 65500 /\ srt_out # NoTimeCode) =>
          srt_out.text = "00:01:05,500"
    /\ (time_in = 65500 /\ vtt_out # NoTimeCode) =>
          vtt_out.text = "00:01:05.500"
    /\ (time_in = 70250 /\ srt_out # NoTimeCode) =>
          srt_out.text = "00:01:10,250"
    /\ (time_in = 70250 /\ vtt_out # NoTimeCode) =>
          vtt_out.text = "00:01:10.250"

\* =========================================================== audio assembler
\* C20: combine_audio_segments returns normally only with the output file in
\* place, and when it has ended with the primary and the second strategy both
\* failed, naive concatenation has been run.
C20_NeverWithoutAudio ==
    /\ asmPc = "returned" => OutputFile \in asm_files
    /\ (asmPc \in {"returned", "raised"} /\ OutputFile \notin asm_files
           /\ Len(asm_started) >= 2)
          => asm_started = <<"primary", "second", "third">>

\* ====================================================== script timing patcher
\* C21: a script that fails validate_modified_script is never what the patch
\* operation returned, unless it is the original script handed back.
C21_InvalidPatchRejected ==
    patchPc = "validated" => (patch_valid.ok \/ patch_out = patch_script)

\* C22: with an empty adjustment list, or a script without a construct method
\* or without play and wait calls in it, inject_wait_times returns and its
\* result is the script it was given, character for character.
C22_NothingToPatch ==
    (/\ patchPc # "start"
     /\ patch_adjustments = <<>> \/ patch_script \in UnpatchableScripts)
        => (patchPc # "raised" /\ patch_out = patch_script)

\* A script of several lines with a line break at its end and nothing to
\* patch has been returned for a list of two adjustments.
C22_Witness ==
    /\ patchPc = "returned"
    /\ patch_script = ScriptNoCalls
    /\ Len(patch_adjustments) = 2
    /\ patch_out = ScriptNoCalls

\* =========================================================== POST /generate
\* C23: a request with the right key whose prompt fails validation is answered
\* 400, and the step that answers 400 creates or changes no status record and
\* starts no background task.
C23_RejectedPromptChangesNothing ==
    [][/\ (/\ http' # http
           /\ http'.expected_api_key # None
           /\ http'.x_api_key = http'.expected_api_key
           /\ ~validate_prompt(http'.prompt)) => http'.code = 400
       /\ (http' # http /\ http'.code = 400)
             => /\ ~validate_prompt(http'.prompt)
                /\ statuses' = statuses
                /\ pc' = pc
                /\ request' = request]_vars

\* A keyed request with the empty prompt has been answered while the record
\* and the task of an earlier request exist.
C23_Witness ==
    /\ http.code = 400
    /\ http.prompt = ""
    /\ \E j \in JobIds : statuses[j] # NoEntry /\ pc[j] # "idle"

\* C24: after a 200 the answer carries status processing, and the videos table
\* holds a row for the video_id with status pending or processing and the
\* submitted prompt.
C24_DatabaseRecordCreated ==
    http.code = 200 =>
        /\ http.status = "processing"
        /\ videos[http.video_id] # NoEntry
        /\ videos[http.video_id].status \in {"pending", "processing"}
        /\ videos[http.video_id].prompt = http.prompt

\* C25: with a key configured, a request without the header or with another
\* key is answered 403, and the step creates no job.
C25_BadKeyIs403 ==
    (/\ http # NoResponse
     /\ http.expected_api_key # None
     /\ http.x_api_key # http.expected_api_key)
        => /\ http.code = 403
           /\ http.video_id = 0

\* C26: within one job the stages are strictly ordered. The render engine is
\* invoked only with the generated script at hand; the narration is composed
\* only right after timing extraction; speech is synthesized only after the
\* narration was composed (in create_synchronized_audio, entered after
\* composition and the subtitle file, or in generate_tts_audio after
\* extract_narration_from_script); Pass B runs only when every valid segment
\* has its measured duration; the assembler is called only with the timeline
\* Pass B left.
C26_StagesOrdered ==
    [][LET j == StageJob IN
       /\ calls'[j].renders > calls[j].renders
             => locals[j].manim_script = "generated"
       /\ (pc'[j] = "compose" /\ pc[j] # "compose")
             => pc[j] = "extract_timing"
       /\ (pc'[j] = "subtitles" /\ pc[j] # "subtitles")
             => pc[j] = "compose"
       /\ (pc'[j] = "sync_audio" /\ pc[j] # "sync_audio")
             => pc[j] = "subtitles"
       /\ (pc'[j] = "tts" /\ pc[j] # "tts")
             => pc[j] = "extract_narration"
       /\ tts_input' # tts_input
             => pc[j] = "sync_audio" /\ syncPc = "pass_a"
       /\ (syncPc = "pass_b" /\ syncPc' # "pass_b")
             => /\ Len(audio_segments) = Len(valid_segments)
                /\ \A i \in 1..Len(audio_segments) :
                       audio_segments[i].duration > 0
       /\ handed' # handed
             => /\ syncPc = "combine"
                /\ handed' = PassB(handed')
                /\ Len(handed') = Len(valid_segments)]_vars

\* A timing_analysis job went through extraction, composition, synthesis of
\* two segments, Pass B and the assembler, and reached the combine stage.
C26_Witness ==
    /\ pc[StageJob] = "combine"
    /\ request[StageJob].sync_method = "timing_analysis"
    /\ syncPc = "returned"
    /\ Len(handed) = 2
    /\ calls[StageJob].renders >= 1

\* C27: the step of a job's status record is always one of 0..4 and no step
\* of the job or of the store lowers it, whatever the sync method, with or
\* without audio, and whether the job ends completed or failed.
C27_StepMonotone ==
    /\ [](\A j \in JobIds :
            statuses[j] # NoEntry => statuses[j].step \in 0..4)
    /\ [][\A j \in JobIds :
            (statuses[j] # NoEntry /\ statuses'[j] # NoEntry)
                => statuses'[j].step >= statuses[j].step]_vars

\* A job with audio failed after its step had reached 4, and the failure
\* update left the step at 4.
C27_Witness ==
    \E j \in JobIds :
        /\ statuses[j] # NoEntry
        /\ statuses[j].status = "failed"
        /\ statuses[j].step = 4

\* C28: in every state of a job record the status is failed exactly when
\* the error is set; the failure handler leaves status failed together with
\* the error text on the record, and no step leaves an error on a record
\* that is pending, processing or completed.
C28_FailedIffError ==
    /\ [](\A j \in JobIds :
            statuses[j] # NoEntry
                => (statuses[j].status = "failed" <=> statuses[j].error # None))
    /\ [][\A j \in JobIds :
            (pc[j] = "except" /\ pc'[j] # "except" /\ statuses[j] # NoEntry)
                => /\ statuses'[j].status = "failed"
                   /\ statuses'[j].error = "error_text"]_vars

\* A job failed at the render stage, and its record is failed with the
\* error text.
C28_Witness ==
    \E j \in JobIds :
        /\ statuses[j] # NoEntry
        /\ statuses[j].status = "failed"
        /\ statuses[j].error = "error_text"
        /\ calls[j].render2_failed

\* C29: an iteration of the synthesis loop whose padding attempt fails, by a
\* non-zero exit or by an exception, does not abort create_synchronized_audio:
\* the clip is appended unpadded with its measured duration and the loop goes
\* on to the next segment or to Pass B.
C29_PaddingFailureKeepsClip ==
    [][(syncPc = "pass_a" /\ pad_result' \in {"nonzero", "raise"})
          => /\ syncPc' \in {"pass_a", "pass_b"}
             /\ Len(audio_segments') = Len(audio_segments) + 1
             /\ LET a == audio_segments'[Len(audio_segments')]
                    seg == valid_segments[Len(audio_segments')]
                IN  /\ a.path = "segment"
                    /\ a.duration = ActualDuration(seg, a.measured)]_vars

\* C30: the assembler starts its strategies in the order primary, second,
\* third, each at most once; a strategy starts only while no strategy has
\* produced the output and the assembler has not returned or raised, the
\* second only after the primary has started and the third only after the
\* second has.
C30_StrategiesInOrder ==
    /\ [](asm_started \in {<<>>, <<"primary">>, <<"primary", "second">>,
                          <<"primary", "second", "third">>})
    /\ [][asm_started' # asm_started
            => /\ Len(asm_started') = Len(asm_started) + 1
               /\ SubSeq(asm_started', 1, Len(asm_started)) = asm_started
               /\ OutputFile \notin asm_files
               /\ asmPc \notin {"returned", "raised"}]_vars
    /\ [][asmPc = "returned" => asm_started' = asm_started]_vars

\* The primary and the second strategy failed, the third produced the output.
C30_Witness ==
    /\ asm_started = <<"primary", "second", "third">>
    /\ asmPc = "returned"
    /\ OutputFile \in asm_files

\* The end of the last audio part before part i of the plan, 0 when there is
\* none.
PreviousEnd(parts, i) ==
    LET before == {k \in 1..(i - 1) : parts[k].type = "audio"}
    IN  IF before = {} THEN 0
        ELSE parts[CHOOSE k \in before : \A m \in before : m <= k].end

\* A timeline as Pass B leaves it: from 0, each clip starting where the
\* previous one ends.
IsCumulative(segs) ==
    \A i \in 1..Len(segs) :
        segs[i].start_time = IF i = 1 THEN 0 ELSE segs[i - 1].end_time

\* C31: in the plan of the primary strategy a silence part stands before a
\* segment exactly when the segment starts after the end of the previous one
\* (after 0 for the first), and it lasts exactly that long; when the concat
\* run succeeds, every planned silence part is among the spliced files; a
\* timeline left by Pass B gets no silence part.
C31_SilencePlannedAndSpliced ==
    /\ [](\A i \in 1..Len(sequence_parts) :
            sequence_parts[i].type = "audio" =>
                LET gap == sequence_parts[i].start - PreviousEnd(sequence_parts, i)
                    silent == i > 1 /\ sequence_parts[i - 1].type = "silence"
                IN  /\ silent <=> gap > 0
                    /\ silent => sequence_parts[i - 1].duration = gap)
    /\ []((sequence_parts # <<>> /\ IsCumulative(asm_segments))
            => SilenceIndexes(sequence_parts) = {})
    /\ [][(asmPc = "concat" /\ asmPc' = "returned")
            => \A i \in SilenceIndexes(sequence_parts) :
                   SilenceFile(i) \in asm_files]_vars

\* C32: when the assembler has returned, which is when
\* create_synchronized_audio goes on to return, no intermediate file of the
\* assembler is left in temp_output, whichever strategy produced the track:
\* no silence file, no sequence file and no concat list.
C32_NoIntermediateFiles ==
    asmPc = "returned" =>
        \A f \in asm_files : f.kind \notin {"silence", "sequence", "concat"}

\* The mismatch of zipped pair i: the audio duration of metadata entry i less
\* the slot of timing segment i.
DurationDiff(i) ==
    segment_metadata[i].audio_duration - SlotOf(narration_segments[i])

ZippedPairs == 1..Min(Len(narration_segments), Len(segment_metadata))

\* What C33 says of everything but the value of wait_duration: an adjustment
\* for pair i exactly when its mismatch exceeds the threshold, at most one
\* per segment and in ascending segment_index order, none for a clip padded
\* up to its slot.
AdjustmentsWhereDue ==
    /\ \A i \in ZippedPairs :
          (\E k \in 1..Len(adjustments) : adjustments[k].segment_index = i - 1)
              <=> DurationDiff(i) > WaitThreshold
    /\ \A k \in 1..Len(adjustments) :
          adjustments[k].segment_index + 1 \in ZippedPairs
    /\ \A k, l \in 1..Len(adjustments) :
          k < l => adjustments[k].segment_index < adjustments[l].segment_index
    /\ \A i \in ZippedPairs :
          audio_segments[i].path = "padded"
              => \A k \in 1..Len(adjustments) : adjustments[k].segment_index # i - 1

\* C33 as stated: adjustments exactly where the mismatch exceeds the
\* threshold, and the wait_duration of each is that mismatch, hence positive.
C33_WaitIsTheDifference ==
    syncPc = "adjusted" =>
        /\ AdjustmentsWhereDue
        /\ \A k \in 1..Len(adjustments) :
              /\ adjustments[k].wait_duration
                    = DurationDiff(adjustments[k].segment_index + 1)
              /\ adjustments[k].wait_duration > 0

\* C33 amended: the wait_duration of each adjustment is the mismatch rounded
\* to hundredths of a second (within 5 ms of it), at least the threshold
\* and hence positive.
C33_WaitIsTheRoundedDifference ==
    syncPc = "adjusted" =>
        /\ AdjustmentsWhereDue
        /\ \A k \in 1..Len(adjustments) :
              LET wait == adjustments[k].wait_duration
                  diff == DurationDiff(adjustments[k].segment_index + 1)
              IN  /\ wait % 10 = 0
                  /\ wait - diff \in -5..5
                  /\ wait >= WaitThreshold
                  /\ wait > 0

\* A clip 104 ms longer than its slot got a wait of 100 ms, and a pair whose
\* mismatch is exactly the threshold got none.
C33_Witness ==
    /\ syncPc = "adjusted"
    /\ \E k \in 1..Len(adjustments) :
          /\ DurationDiff(adjustments[k].segment_index + 1) = 104
          /\ adjustments[k].wait_duration = 100
    /\ \E i \in ZippedPairs : DurationDiff(i) = WaitThreshold

\* The line of the call that ends segment k in the original script: with C
\* play/wait calls and S timing segments, call number
\* min((k+1) * max(1, C div S) - 1, C - 1), or C - 1 for k = S - 1.
OriginalSegmentEnd(lines, construct_start, k, S) ==
    LET play_wait_lines == PlayWaitLines(lines, construct_start)
        C == Cardinality(play_wait_lines)
    IN  NthOf(play_wait_lines, IF k = S - 1 THEN C - 1
                     ELSE Min((k + 1) * Max(1, C \div S) - 1, C - 1))

\* The script with the pause of every adjusted segment directly after the
\* line of OriginalSegmentEnd, the segments taken in descending order.
RECURSIVE PausesAtOriginalEnds(_, _, _, _, _, _)
PausesAtOriginalEnds(lines, original, keys, adjs, construct_start, S) ==
    IF keys = {} THEN lines
    ELSE LET k == CHOOSE x \in keys : \A o \in keys : x >= o
         IN  PausesAtOriginalEnds(
                 InsertAfter(lines,
                             OriginalSegmentEnd(original, construct_start, k, S),
                             WaitLine(BaseIndent(original, construct_start),
                                      AdjustmentFor(adjs, k).wait_duration)),
                 original, keys \ {k}, adjs, construct_start, S)

\* C34: for a script with play/wait calls in construct and S timing
\* segments, the patched script is the original with the pause of each
\* adjusted segment k < S directly after the original call that ends segment
\* k, whichever other segments are adjusted too.
C34_PauseAfterOriginalCall ==
    LET original == SplitLines(patch_script)
        construct_start == ConstructStart(original)
        keys == {patch_adjustments[i].segment_index :
                    i \in 1..Len(patch_adjustments)}
    IN  (/\ patchPc = "returned"
         /\ keys # {}
         /\ \A k \in keys : k < patch_total
         /\ construct_start # 0
         /\ PlayWaitLines(original, construct_start) # {})
            => patch_out = JoinLines(PausesAtOriginalEnds(original, original,
                               keys, patch_adjustments, construct_start,
                               patch_total))

\* C35: a step of job A, with the create or update it issues, leaves the
\* record of every other job B as it was; whatever A does, B's task is never
\* blocked, and when B's task has ended B's record holds a terminal status.
C35_JobsIsolated ==
    /\ [][\A a \in PairIds, b \in PairIds :
            (a # b /\ pc'[a] # pc[a]) => statuses'[b] = statuses[b]]_vars
    /\ [](\A b \in PairIds :
            /\ pc[b] \notin {"idle", "done"} => ENABLED JobStep(b)
            /\ pc[b] = "done" => statuses[b].status \in Terminal)

\* Job A, started after job B, has ended failed; B was running all the
\* while and has just recorded completed.
C35_Witness ==
    \E a \in PairIds, b \in PairIds :
        /\ b < a
        /\ pc[a] = "done" /\ statuses[a].status = "failed"
        /\ pc[b] = "cleanup_fp" /\ statuses[b].status = "completed"
        /\ statuses[b].error = None

\* C36: when two threads have updated the same record, every field that one
\* of them supplied holds the supplied value, every field that both supplied
\* holds one of the two supplied values, and every other field is as it was.
C36_NoLostUpdate ==
    \A t \in Threads, u \in Threads :
        (/\ t # u
         /\ threads[t].pc = "done" /\ threads[u].pc = "done"
         /\ threads[t].id = threads[u].id)
            => LET id == threads[t].id
                   a == threads[t].a
                   b == threads[u].a
               IN  \A f \in StoreFields :
                       statuses[id][f] \in
                           IF Supplied(a, f) /\ Supplied(b, f) THEN {a[f], b[f]}
                           ELSE IF Supplied(a, f) THEN {a[f]}
                           ELSE IF Supplied(b, f) THEN {b[f]}
                           ELSE {ThreadRecord(id)[id][f]}

\* One thread set the step and its message, the other the file path alone;
\* both have left update and the record holds both the step and the path.
C36_Witness ==
    \E t \in Threads, u \in Threads :
        /\ t # u
        /\ threads[t].pc = "done" /\ threads[u].pc = "done"
        /\ threads[t].id = threads[u].id
        /\ threads[t].a.step = 2
        /\ threads[u].a.file_path = "final_video_path"
        /\ threads[u].a.status = None
        /\ statuses[threads[t].id].step = 2
        /\ statuses[threads[t].id].file_path = "final_video_path"

\* C37: once update_video_status has been called for a video,
\* get_video_status returns the status, step and message of the last such
\* call; video_statuses has one row at most per (video_id, step), and the row
\* of the last call's step carries the last call's message.
C37_GetReturnsLastUpdate ==
    \A v \in JobIds :
        db_last[v] # NoUpdate =>
            LET got == get_video_status(videos, video_statuses, v)
            IN  /\ got.status = db_last[v].status
                /\ got.step = db_last[v].step
                /\ got.message = db_last[v].message
                /\ \A r \in video_statuses, q \in video_statuses :
                       (r.video_id = q.video_id /\ r.step = q.step) => r = q
                /\ [video_id |-> v, step |-> db_last[v].step,
                    message |-> db_last[v].message] \in video_statuses

\* C38: in a job with audio and sync_method timing_analysis, the removal of
\* the temporary audio file that follows the combine step takes the value
\* bound at line 355 and does not raise, so that the job goes on to the final
\* probe and to status completed.
C38_SynchronizedAudioAccepted ==
    [][\A j \in JobIds :
          (/\ pc[j] = "rm_audio"
           /\ request[j].include_audio
           /\ request[j].sync_method = "timing_analysis"
           /\ pc'[j] # pc[j])
              => pc'[j] = "final_probe"]_vars

\* C39: when create_synchronized_audio has returned for narration segments
\* that all have an end_time, the subtitle file written from them has one
\* caption per entry of the metadata, and caption i starts at actual_start
\* and ends at actual_end of entry i.
C39_CaptionsFollowAudio ==
    (/\ segment_metadata # <<>>
     /\ \A i \in 1..Len(narration_segments) :
            narration_segments[i].end_time # Absent)
        => LET captions == CaptionIntervals(narration_segments)
           IN  /\ Len(captions) = Len(segment_metadata)
               /\ \A i \in 1..Len(captions) :
                      /\ captions[i].start = segment_metadata[i].actual_start
                      /\ captions[i].end = segment_metadata[i].actual_end

\* C40: the metadata create_synchronized_audio returns has one entry per
\* input narration segment, and the entry with segment_index i carries the
\* planned start and the spoken text of input segment i.
C40_MetadataPairsWithInput ==
    segment_metadata # <<>>
        => /\ Len(segment_metadata) = Len(narration_segments)
           /\ \A i \in 1..Len(segment_metadata) :
                  /\ segment_metadata[i].segment_index = i - 1
                  /\ segment_metadata[i].planned_start
                         = narration_segments[i].start_time
                  /\ segment_metadata[i].text
                         = SpokenText(narration_segments[i])

====
